---------------------------- MODULE Spec2Model ----------------------------
(***************************************************************************)
(* A model of the crawler of this repository: the Frontier (per-domain     *)
(* queues, politeness clock, in-flight counter, persisted store), the      *)
(* Worker loop, the Crawler orchestrator and the URL predicate is_valid.   *)
(*                                                                         *)
(* URLs are strings.  urlparse, normalize and is_valid work on the         *)
(* characters of the string, as the Python code does.                      *)
(***************************************************************************)
EXTENDS Integers, Sequences, FiniteSets, TLC

(***************************************************************************)
(* Strings                                                                 *)
(***************************************************************************)

\* s[i:j] of Python on 1-based inclusive positions; "" when the range is empty.
Sub(s, i, j) ==
    IF i > j THEN "" ELSE SubSeq(s, i, j)

\* s.startswith(p)
StartsWith(s, p) ==
    Len(p) <= Len(s) /\ Sub(s, 1, Len(p)) = p

\* s.endswith(p)
EndsWith(s, p) ==
    Len(p) <= Len(s) /\ Sub(s, Len(s) - Len(p) + 1, Len(s)) = p

\* the positions where p occurs in s
Occurrences(s, p) ==
    {i \in 1..(Len(s) - Len(p) + 1) : Sub(s, i, i + Len(p) - 1) = p}

\* p in s
Contains(s, p) ==
    Occurrences(s, p) # {}

\* s.find(p), 1-based; 0 when p does not occur
Find(s, p) ==
    IF Occurrences(s, p) = {} THEN 0
    ELSE CHOOSE i \in Occurrences(s, p) : \A j \in Occurrences(s, p) : i <= j

\* the first position of s holding one of the characters of set cs; 0 if none
FindAny(s, cs) ==
    LET hits == {i \in 1..Len(s) : Sub(s, i, i) \in cs}
    IN  IF hits = {} THEN 0 ELSE CHOOSE i \in hits : \A j \in hits : i <= j

UpperCase == "ABCDEFGHIJKLMNOPQRSTUVWXYZ"
LowerCase == "abcdefghijklmnopqrstuvwxyz"
Digits == {"0", "1", "2", "3", "4", "5", "6", "7", "8", "9"}

\* c.lower() for a one-character string
LowerChar(c) ==
    IF Contains(UpperCase, c)
    THEN Sub(LowerCase, Find(UpperCase, c), Find(UpperCase, c))
    ELSE c

RECURSIVE Lower(_)
\* s.lower()
Lower(s) ==
    IF Len(s) = 0 THEN ""
    ELSE IF Len(s) = 1 THEN LowerChar(s)
    ELSE Lower(Sub(s, 1, Len(s) \div 2)) \o Lower(Sub(s, Len(s) \div 2 + 1, Len(s)))

RECURSIVE Split(_, _)
\* s.split(sep) for a one-character separator
Split(s, sep) ==
    LET i == Find(s, sep)
    IN  IF i = 0 THEN <<s>>
        ELSE <<Sub(s, 1, i - 1)>> \o Split(Sub(s, i + 1, Len(s)), sep)

RECURSIVE RStrip(_, _)
\* s.rstrip(c) for a one-character c
RStrip(s, c) ==
    IF EndsWith(s, c) /\ Len(c) > 0 THEN RStrip(Sub(s, 1, Len(s) - 1), c) ELSE s

\* the elements of a sequence, as a set
Range(q) ==
    {q[i] : i \in 1..Len(q)}

(***************************************************************************)
(* urllib.parse.urlparse, as far as the crawler reads its result           *)
(***************************************************************************)

SchemeChars ==
    {Sub(LowerCase, i, i) : i \in 1..26} \cup {Sub(UpperCase, i, i) : i \in 1..26}
        \cup Digits \cup {"+", "-", "."}

\* the position of the ":" that ends a scheme; 0 when the URL has no scheme
SchemeEnd(url) ==
    LET i == Find(url, ":")
    IN  IF /\ i > 1
           /\ Sub(url, 1, 1) \notin Digits \cup {"+", "-", "."}
           /\ \A k \in 1..(i - 1) : Sub(url, k, k) \in SchemeChars
        THEN i ELSE 0

\* hostname of a netloc: userinfo and port dropped, lower-cased; "" stands for None
HostnameOf(netloc) ==
    LET at == {i \in 1..Len(netloc) : Sub(netloc, i, i) = "@"}
        hostinfo == IF at = {} THEN netloc
                    ELSE Sub(netloc, (CHOOSE i \in at : \A j \in at : j <= i) + 1,
                             Len(netloc))
        colon == Find(hostinfo, ":")
        open == Find(hostinfo, "[")
        close == Find(hostinfo, "]")
    IN  IF open > 0 /\ close > 0 THEN Lower(Sub(hostinfo, open + 1, close - 1))
        ELSE IF colon = 0 THEN Lower(hostinfo)
        ELSE Lower(Sub(hostinfo, 1, colon - 1))

\* s.partition(sep) without the separator: <<before, after>>, <<s, "">> when
\* sep does not occur
Partition(s, sep) ==
    LET i == Find(s, sep)
    IN  IF i = 0 THEN <<s, "">> ELSE <<Sub(s, 1, i - 1), Sub(s, i + 1, Len(s))>>

\* urlsplit, the scheme: <<scheme, rest>>
SplitScheme(url) ==
    LET se == SchemeEnd(url)
    IN  IF se = 0 THEN <<"", url>>
        ELSE <<Lower(Sub(url, 1, se - 1)), Sub(url, se + 1, Len(url))>>

\* _splitnetloc(url, 2) on the text after "//": <<netloc, rest>>
SplitNetlocAfter(s) ==
    LET delim == FindAny(s, {"/", "?", "#"})
    IN  IF delim = 0 THEN <<s, "">> ELSE <<Sub(s, 1, delim - 1), Sub(s, delim, Len(s))>>

\* urlsplit, the netloc: <<netloc, rest>>
SplitNetloc(rest) ==
    IF StartsWith(rest, "//") THEN SplitNetlocAfter(Sub(rest, 3, Len(rest)))
    ELSE <<"", rest>>

\* the position of the last "/" of s; 0 if none
LastSlash(s) ==
    LET slashes == Occurrences(s, "/")
    IN  IF slashes = {} THEN 0 ELSE CHOOSE i \in slashes : \A j \in slashes : j <= i

\* s.find(";", start), 1-based; 0 if none
FindSemiFrom(s, start) ==
    LET semis == {i \in Occurrences(s, ";") : i >= start}
    IN  IF semis = {} THEN 0 ELSE CHOOSE i \in semis : \A j \in semis : i <= j

\* urlparse's _splitparams, applied for http and https: <<path, params>>
SplitParamsAt(s, semi) ==
    IF semi = 0 THEN <<s, "">> ELSE <<Sub(s, 1, semi - 1), Sub(s, semi + 1, Len(s))>>

SplitParams(scheme, s) ==
    IF scheme \in {"http", "https"}
    THEN SplitParamsAt(s, FindSemiFrom(s, LastSlash(s) + 1))
    ELSE <<s, "">>

\* the ParseResult.  error is TRUE where urlsplit raises ValueError (a netloc with
\* an unbalanced bracket); hostname "" is Python's None
ParseResult(scheme, netloc, pathParams, query, fragment) ==
    [error    |-> Contains(netloc, "[") # Contains(netloc, "]"),
     scheme   |-> scheme,
     netloc   |-> netloc,
     path     |-> pathParams[1],
     params   |-> pathParams[2],
     query    |-> query,
     fragment |-> fragment,
     hostname |-> HostnameOf(netloc)]

\* urlsplit after the "#" split: hq is <<url without fragment, fragment>>
UrlParseQuery(scheme, netloc, fragment, pq) ==
    ParseResult(scheme, netloc, SplitParams(scheme, pq[1]), pq[2], fragment)

UrlParseFragment(scheme, netloc, hq) ==
    UrlParseQuery(scheme, netloc, hq[2], Partition(hq[1], "?"))

UrlParseNetloc(scheme, nr) ==
    UrlParseFragment(scheme, nr[1], Partition(nr[2], "#"))

UrlParseScheme(sr) ==
    UrlParseNetloc(sr[1], SplitNetloc(sr[2]))

\* urlparse(url)
urlparse(url) ==
    UrlParseScheme(SplitScheme(url))

(***************************************************************************)
(* scraper.is_valid                                                        *)
(***************************************************************************)

ALLOWED_DOMAINS ==
    <<".ics.uci.edu", ".cs.uci.edu", ".informatics.uci.edu", ".stat.uci.edu">>

\* domain.lstrip(".")
LStripDot(d) ==
    IF StartsWith(d, ".") THEN Sub(d, 2, Len(d)) ELSE d

dokuwiki_params_NoMedia ==
    {"tab_files=", "tab_details=", "do=revisions", "do=backlink", "do=recent",
     "do=index"}

dokuwiki_params ==
    {"do=media", "tab_files=", "tab_details=", "do=revisions", "do=backlink",
     "do=recent", "do=index"}

bad_paths ==
    {"/wp-json/", "/wp-content/uploads/"}

\* the alternatives of the extension pattern r".*\.(css|js|...)$"
NonHtmlExtensions ==
    {"css", "js", "bmp", "gif", "jpg", "jpeg", "ico", "png", "tif", "tiff",
     "mid", "mp2", "mp3", "mp4", "wav", "avi", "mov", "mpeg", "ram", "m4v", "mkv",
     "ogg", "ogv",
     "pdf", "ps", "eps", "tex", "ppt", "pptx", "doc", "docx", "xls", "xlsx",
     "zip", "rar", "gz", "bz2", "tar", "7z", "tgz",
     "exe", "msi", "bin", "dll", "dmg", "iso", "apk",
     "c", "cc", "cpp", "h", "hpp", "java", "py", "r", "m", "mat", "o",
     "names", "data", "dat", "psd", "epub", "cnf", "sha1", "thmx", "mso", "arff",
     "rtf", "jar", "csv",
     "rm", "smil", "wmv", "swf", "wma", "img", "sql", "ppsx", "odc", "war", "db",
     "lif"}

\* re.search(r"\d{4}[-/]\d{2}", s)
HasYearMonth(s) ==
    \E i \in 1..(Len(s) - 6) :
        /\ \A k \in 0..3 : Sub(s, i + k, i + k) \in Digits
        /\ Sub(s, i + 4, i + 4) \in {"-", "/"}
        /\ \A k \in 5..6 : Sub(s, i + k, i + k) \in Digits

\* re.search(r"(^|[&;])(C|O)=", query)
HasSortParam(query) ==
    \E key \in {"C=", "O="} :
        \/ StartsWith(query, key)
        \/ Contains(query, "&" \o key)
        \/ Contains(query, ";" \o key)

RECURSIVE CountFrom(_, _, _)
\* s.count(p): the occurrences of p from position start on that do not overlap
CountFrom(s, p, start) ==
    LET occ == {i \in Occurrences(s, p) : i >= start}
    IN  IF occ = {} THEN 0
        ELSE 1 + CountFrom(s, p, (CHOOSE i \in occ : \A j \in occ : i <= j) + Len(p))

\* path_segments = [seg for seg in parsed.path.split("/") if seg]
PathSegments(path) ==
    SelectSeq(Split(path, "/"), LAMBDA seg : seg # "")

\* the rules of is_valid on a URL that parses, in the order of the code
ValidParsed(url, parsed) ==
    LET hostname == parsed.hostname
        path_lower == Lower(parsed.path)
        query_lower == Lower(parsed.query)
        path_segments == PathSegments(parsed.path)
    IN  /\ parsed.scheme \in {"http", "https"}
        /\ hostname # ""
        /\ \E i \in 1..Len(ALLOWED_DOMAINS) :
              \/ hostname = LStripDot(ALLOWED_DOMAINS[i])
              \/ EndsWith(hostname, ALLOWED_DOMAINS[i])
        /\ ~(Contains(query_lower, "replytocom=") \/ Contains(query_lower, "share="))
        /\ ~(Contains(query_lower, "oembed") \/ Contains(query_lower, "format=xml"))
        /\ ~(\E param \in dokuwiki_params : Contains(query_lower, param))
        /\ ~(Contains(query_lower, "filter%5b") \/ Contains(query_lower, "filter["))
        /\ ~(EndsWith(path_lower, "/feed") \/ Contains(path_lower, "/feed/"))
        /\ ~EndsWith(path_lower, ".xml")
        /\ ~(\E bad \in bad_paths : Contains(path_lower, bad))
        /\ ~Contains(Lower(hostname), "gitlab")
        /\ ~(\E ext \in NonHtmlExtensions : EndsWith(path_lower, "." \o ext))
        /\ ~((\E word \in {"calendar", "date", "event"} : Contains(path_lower, word))
                /\ HasYearMonth(parsed.path))
        /\ ~(CountFrom(path_lower, "seminar-series", 1) > 1)
        /\ ~(Len(url) > 200)
        /\ ~(Len(path_segments) > 10)
        /\ ~(Len(path_segments) # Cardinality(Range(path_segments)))
        /\ ~HasSortParam(parsed.query)
        /\ ~(\E word \in {"login", "logout", "wp-admin", "wp-login", "action="} :
                Contains(Lower(url), word))

\* a faulty is_valid that catches the failure of urlparse and goes on
is_valid_raises_Never(url) ==
    FALSE

\* is_valid(url) raises when urlparse raises: nothing in is_valid catches ValueError,
\* and the TypeError handler re-raises
is_valid_raises(url) ==
    urlparse(url).error

\* is_valid(url), for a URL on which it returns
is_valid(url) ==
    ValidParsed(url, urlparse(url))

(***************************************************************************)
(* scraper: the text of a page, its tokens and its word frequencies        *)
(***************************************************************************)

STOP_WORDS ==
    {"a", "about", "above", "after", "again", "against", "all", "am", "an",
     "and", "any", "are", "aren't", "as", "at", "be", "because", "been",
     "before", "being", "below", "between", "both", "but", "by", "can't",
     "cannot", "could", "couldn't", "did", "didn't", "do", "does",
     "doesn't", "doing", "don't", "down", "during", "each", "few", "for",
     "from", "further", "had", "hadn't", "has", "hasn't", "have",
     "haven't", "having", "he", "he'd", "he'll", "he's", "her", "here",
     "here's", "hers", "herself", "him", "himself", "his", "how", "how's",
     "i", "i'd", "i'll", "i'm", "i've", "if", "in", "into", "is", "isn't",
     "it", "it's", "its", "itself", "let's", "me", "more", "most",
     "mustn't", "my", "myself", "no", "nor", "not", "of", "off", "on",
     "once", "only", "or", "other", "ought", "our", "ours", "ourselves",
     "out", "over", "own", "same", "shan't", "she", "she'd", "she'll",
     "she's", "should", "shouldn't", "so", "some", "such", "than", "that",
     "that's", "the", "their", "theirs", "them", "themselves", "then",
     "there", "there's", "these", "they", "they'd", "they'll", "they're",
     "they've", "this", "those", "through", "to", "too", "under", "until",
     "up", "very", "was", "wasn't", "we", "we'd", "we'll", "we're",
     "we've", "were", "weren't", "what", "what's", "when", "when's",
     "where", "where's", "which", "while", "who", "who's", "whom", "why",
     "why's", "with", "won't", "would", "wouldn't", "you", "you'd",
     "you'll", "you're", "you've", "your", "yours", "yourself",
     "yourselves"}

JUNK_WORDS ==
    {"html", "update", "automatic", "markdown", "rmd", "git", "file",
     "files", "store", "ds", "href", "https", "http", "www", "nbsp", "amp",
     "quot", "lt", "gt"}

\* c.isascii() and c.isalnum() for a one-character string
IsAsciiAlnum(c) ==
    Contains(LowerCase, c) \/ Contains(UpperCase, c) \/ c \in Digits

\* the first position from i on whose character is (alnum = TRUE) or is not
\* (alnum = FALSE) an ASCII letter or digit; Len(text) + 1 when there is none
NextAt(text, i, alnum) ==
    LET hits == {k \in i..Len(text) : IsAsciiAlnum(Sub(text, k, k)) = alnum}
    IN  IF hits = {} THEN Len(text) + 1
        ELSE CHOOSE k \in hits : \A j \in hits : k <= j

RECURSIVE TokenizeFrom(_, _)
\* the loop of _tokenize from character i on, one maximal run of letters and
\* digits at a time: the run is lower-cased and appended as a token
TokenizeFrom(text, i) ==
    LET start == NextAt(text, i, TRUE)
        end == NextAt(text, start, FALSE)
    IN  IF start > Len(text) THEN <<>>
        ELSE <<Lower(Sub(text, start, end - 1))>> \o TokenizeFrom(text, end)

\* _tokenize(text): the maximal runs of ASCII letters and digits, lower-cased
tokenize(text) ==
    TokenizeFrom(text, 1)

\* the tokens _record_stats keeps for the word counts
KeptToken(token) ==
    /\ 2 <= Len(token) /\ Len(token) <= 30
    /\ token \notin STOP_WORDS
    /\ token \notin JUNK_WORDS

filtered(tokens) ==
    SelectSeq(tokens, KeptToken)

\* _compute_word_frequencies(tokens)
compute_word_frequencies(tokens) ==
    [token \in Range(tokens) |->
        Cardinality({i \in 1..Len(tokens) : tokens[i] = token})]

\* urldefrag(url)[0]
urldefrag(url) ==
    IF Find(url, "#") = 0 THEN url ELSE Sub(url, 1, Find(url, "#") - 1)

PER_PAGE_CAP == 10

\* min(count, PER_PAGE_CAP)
Capped_NoCap(count) ==
    count

Capped(count) ==
    IF count < PER_PAGE_CAP THEN count ELSE PER_PAGE_CAP

\* len(tokens) < 50: the page is skipped
LowContent_AtMost50(tokens) ==
    Len(tokens) <= 50

LowContent(tokens) ==
    Len(tokens) < 50

RECURSIVE Repeat(_, _)
\* s * n
Repeat(s, n) ==
    IF n = 0 THEN "" ELSE s \o Repeat(s, n - 1)

\* the pages _record_stats is called with: the response URL and the visible text
\* that _extract_visible_text returns.  50 tokens with one word 12 times; 51
\* tokens; 49 tokens; 50 tokens on a host outside uci.edu
STATS_PAGES ==
    {[url |-> "http://a.ics.uci.edu/p#top",
      text |-> Repeat("Alpha ", 12) \o Repeat("the ", 38)],
     [url |-> "http://b.ics.uci.edu/x",
      text |-> Repeat("alpha beta ", 3) \o Repeat("a ", 45)],
     [url |-> "http://a.ics.uci.edu/short",
      text |-> Repeat("beta ", 49)],
     [url |-> "http://example.com/",
      text |-> Repeat("alpha-", 50)]}

\* _tokenize on the pages of the model, computed once
PageTokens ==
    [page \in STATS_PAGES |-> tokenize(page.text)]

\* every word some page can add to word_counts
WORDS ==
    UNION {Range(filtered(PageTokens[page])) : page \in STATS_PAGES}

RECURSIVE FirstOccurrences(_, _)
\* the keys of the dict _compute_word_frequencies builds, in insertion order
FirstOccurrences(tokens, seen) ==
    IF tokens = <<>> THEN <<>>
    ELSE IF Head(tokens) \in seen THEN FirstOccurrences(Tail(tokens), seen)
    ELSE <<Head(tokens)>> \o FirstOccurrences(Tail(tokens), seen \cup {Head(tokens)})

\* the locals of _record_stats(url, soup) before it takes stats_lock, for the
\* page with this URL
RecordStatsLocals(page) ==
    [clean_url |-> urldefrag(page.url),
     tokens |-> PageTokens[page],
     hostname |-> Lower(urlparse(urldefrag(page.url)).hostname),
     page_freqs |-> compute_word_frequencies(filtered(PageTokens[page])),
     words |-> FirstOccurrences(filtered(PageTokens[page]), {}),
     total_word_count |-> Len(PageTokens[page])]

\* the same, by URL and computed once
Locals ==
    [url \in {page.url : page \in STATS_PAGES} |->
        RecordStatsLocals(CHOOSE page \in STATS_PAGES : page.url = url)]

(***************************************************************************)
(* is_valid called on its own                                              *)
(***************************************************************************)

\* the URLs is_valid is called with: every scheme, host, path and query of
\* these put together; the last path makes every URL longer than 200 characters
IS_VALID_INPUTS ==
    {scheme \o "://" \o host \o path \o query :
        scheme \in {"http", "https"},
        host \in {"x.gitlab.ics.uci.edu", "x.ics.uci.edu", "www.ics.uci.edu",
                  "www.example.com"},
        path \in {"/", "/foo", "/a.pdf", "/cal/2023-05/", "/calendar/2023-05/",
                  "/a/b/a/b", "/people/", "/" \o Repeat("abcdefghij", 23)},
        query \in {"", "?do=media", "?id=1"}}

\* is_valid on these URLs, computed once: "True", "False", or "raised"
IsValidResult ==
    [url \in IS_VALID_INPUTS |->
        IF is_valid_raises(url) THEN "raised"
        ELSE IF is_valid(url) THEN "True" ELSE "False"]

(***************************************************************************)
(* Configuration and the pages of the web that is crawled                  *)
(***************************************************************************)

\* config.threads_count: the number of Worker threads Crawler.start_async spawns
NumWorkers == 2

\* config.time_delay, the politeness delay, in clock ticks
time_delay == 2

\* the clock value after which the time origin is moved instead of the clock read
\* growing (the code reads only differences of time.time() values)
MaxTime == 3

\* the number of frontier operations a direct caller makes
MaxCalls == 5

\* the number of _record_stats calls the threads make between them
MaxRecords == 3

\* the number of SIGTERM deliveries
MaxSignals == 1

Workers == 1..NumWorkers

\* config.seed_urls: one crawlable seed and one seed that is_valid rejects
seed_urls ==
    <<"http://a.ics.uci.edu/p", "http://b.ics.uci.edu/x.pdf">>

\* the anchor lists (absolute, fragment-free) that fetched pages can hold: a page
\* with a crawlable link and a trap, and a page with a link that does not parse
PAGES ==
    { <<"http://a.ics.uci.edu/q/", "http://b.ics.uci.edu/x.pdf">>,
      <<"http://a.ics.uci.edu/q", "http://[::1/">> }

\* what download() can return: a 200 response with a body, a 200 response whose
\* raw_response is None, and a non-200 response whose body still holds an anchor
RESPONSES ==
    {[status |-> 200, raw_response |-> TRUE, hrefs |-> page] : page \in PAGES}
        \cup {[status |-> 200, raw_response |-> FALSE, hrefs |-> <<>>],
              [status |-> 404, raw_response |-> TRUE,
               hrefs |-> <<"http://a.ics.uci.edu/q">>]}

\* the end-to-end scenario: one seed, and a fetched page that exposes three
\* outbound links, two crawlable and one trapped
E2ESeeds ==
    <<"http://a.ics.uci.edu/p">>

E2EPage ==
    <<"http://a.ics.uci.edu/q/", "http://b.ics.uci.edu/p", "http://b.ics.uci.edu/x.pdf">>

\* what the fetcher of the scenario returns: the page, and for a URL other than
\* the seed possibly a 200 response without content
E2EResponses(url) ==
    {[status |-> 200, raw_response |-> TRUE, hrefs |-> E2EPage]}
        \cup (IF url \in Range(E2ESeeds) THEN {}
              ELSE {[status |-> 200, raw_response |-> FALSE, hrefs |-> <<>>]})

\* a page whose only anchor is a document link written with a trailing slash
DispatchPage ==
    <<"http://b.ics.uci.edu/x.pdf/">>

\* Python's None, for a URL-valued variable
None == "None"

\* the value of resp before the first download of a worker
NoResp == [status |-> 0, raw_response |-> FALSE, hrefs |-> <<>>]

(***************************************************************************)
(* utils.normalize and utils.get_urlhash                                   *)
(***************************************************************************)

\* normalize(url): the trailing-slash policy of the Normalizer
normalize(url) ==
    RStrip(url, "/")

\* get_urlhash(url): a stable, collision-free digest of the URL string
get_urlhash(url) ==
    <<"urlhash", url>>

\* the URLs that occur anywhere: seeds, anchors, and their normal forms
URLS ==
    LET raw == Range(seed_urls) \cup UNION {Range(r.hrefs) : r \in RESPONSES}
                   \cup Range(E2ESeeds) \cup Range(E2EPage) \cup Range(DispatchPage)
    IN  raw \cup {normalize(u) : u \in raw}

\* urlparse and is_valid on the URLs of the model, computed once
ParsedUrl ==
    [u \in URLS |-> urlparse(u)]

ValidUrl ==
    [u \in URLS |-> ~is_valid_raises(u) /\ is_valid(u)]

(***************************************************************************)
(* State                                                                   *)
(***************************************************************************)

VARIABLES
    restart,           \* the restart flag this process was launched with
    save,              \* Frontier.save: the shelve store, urlhash -> <<url, completed>>
    domain_queues,     \* Frontier.domain_queues: the dict in insertion order,
                       \*   a sequence of [domain, queue]
    last_accessed,     \* Frontier.last_accessed: domain -> time of the last pop
    active_downloads,  \* Frontier.active_downloads
    now,               \* the value time.time() returns
    pc,                \* each Worker thread's position in Worker.run
    tbd_url,           \* each Worker's local tbd_url
    resp,              \* each Worker's local resp
    scraped_urls,      \* each Worker's scraped_urls still to be passed to add_url
    npop,              \* history: url -> number of times get_tbd_url returned it
                       \*   in this process
    lastPop,           \* history: domain -> clock value of the latest pop of one of
                       \*   its URLs in this process
    enqLog,            \* history: the URLs add_url enqueued in this process, in
                       \*   order, those of the constructor included
    nadd,              \* history: normalized url -> number of add_url calls made for
                       \*   it since the Frontier was constructed
    nfetch,            \* history: url -> number of download() calls in this process
    lastFetch,         \* history: domain -> clock value of the latest download()
                       \*   of one of its URLs in this process
    nmark,             \* history: url -> number of mark_url_complete calls
    ncalls             \* history: number of frontier operations called directly

crawlerVars ==
    <<restart, save, domain_queues, last_accessed, active_downloads, now, pc,
      tbd_url, resp, scraped_urls, npop, lastPop, nadd, enqLog, nfetch,
      lastFetch, nmark, ncalls>>

VARIABLES
    unique_pages,      \* scraper.unique_pages: the set of defragmented URLs recorded
    word_counts,       \* scraper.word_counts: the Counter, word -> count
    longest_page,      \* scraper.longest_page: <<url, word_count>>
    subdomain_pages,   \* scraper.subdomain_pages: hostname -> set of URLs
    stats_lock,        \* scraper.stats_lock: its holder, or None
    log_lock,          \* scraper.log_lock: its holder, or None
    crawl_log,         \* the entries _log_crawl has appended to crawl_log.txt
    report,            \* the reports written so far; the last one is report.json
    rs,                \* per thread: where it is in _record_stats and its locals
    main,              \* the main thread's stack of _save_report invocations
    mainpc,            \* the main thread: "running", "exiting" or "exited"
    ncalled,           \* history: per page, the _record_stats calls made so far
    nrecorded,         \* history: per page, the calls that finished their update
    nsignals           \* history: the number of SIGTERM deliveries so far

statsVars ==
    <<unique_pages, word_counts, longest_page, subdomain_pages, stats_lock, log_lock,
      crawl_log, report, rs, main, mainpc, ncalled, nrecorded, nsignals>>

VARIABLES
    url_checked,       \* the argument of a call of is_valid, None outside of one
    verdict            \* what the call returned, None before it returns

validVars ==
    <<url_checked, verdict>>

vars ==
    <<crawlerVars, statsVars, validVars>>

\* no call of is_valid is looked at
ValidInit ==
    /\ url_checked = None
    /\ verdict = None

\* a lock nobody holds
Unlocked == <<>>

\* a thread that is not inside _record_stats
Idle ==
    [pc |-> "idle", url |-> "None", words |-> <<>>, tmp |-> 0]

\* the module-level statistics of scraper.py when the module has been imported,
\* and no thread in _record_stats or _save_report yet
StatsInit ==
    /\ unique_pages = {}
    /\ word_counts = [word \in WORDS |-> 0]
    /\ longest_page = <<"", 0>>
    /\ subdomain_pages = <<>>
    /\ stats_lock = Unlocked
    /\ log_lock = Unlocked
    /\ crawl_log = <<>>
    /\ report = <<>>
    /\ rs = [t \in 1..NumWorkers |-> Idle]
    /\ main = <<>>
    /\ mainpc = "running"
    /\ ncalled = [url \in DOMAIN Locals |-> 0]
    /\ nrecorded = [url \in DOMAIN Locals |-> 0]
    /\ nsignals = 0

frontierVars ==
    <<save, domain_queues, last_accessed, active_downloads>>

workerVars ==
    <<pc, tbd_url, resp, scraped_urls>>

(***************************************************************************)
(* Frontier                                                                *)
(***************************************************************************)

\* d[k] = v on a dict held as a function
Put(d, k, v) ==
    [x \in DOMAIN d \cup {k} |-> IF x = k THEN v ELSE d[x]]

\* the domain of a URL: urlparse(url).netloc
DomainOf(url) ==
    ParsedUrl[url].netloc

\* a faulty enqueue: the URL is put at the head of its domain's queue
Enqueue_AppendLeft(dq, url) ==
    IF \E i \in 1..Len(dq) : dq[i].domain = DomainOf(url)
    THEN [i \in 1..Len(dq) |->
             IF dq[i].domain = DomainOf(url)
             THEN [dq[i] EXCEPT !.queue = <<url>> \o @]
             ELSE dq[i]]
    ELSE Append(dq, [domain |-> DomainOf(url), queue |-> <<url>>])

\* self.domain_queues[domain].append(url): a defaultdict, so a missing key is
\* created at the end of the dict
Enqueue(dq, url) ==
    LET domain == DomainOf(url)
    IN  IF \E i \in 1..Len(dq) : dq[i].domain = domain
        THEN [i \in 1..Len(dq) |->
                 IF dq[i].domain = domain
                 THEN [dq[i] EXCEPT !.queue = Append(@, url)]
                 ELSE dq[i]]
        ELSE Append(dq, [domain |-> domain, queue |-> <<url>>])

\* a faulty add_url: the record is written and the URL enqueued without looking
\* the hash up
AddUrlResult_NoDedup(sv, dq, url) ==
    [save |-> Put(sv, get_urlhash(normalize(url)), <<normalize(url), FALSE>>),
     dq   |-> Enqueue(dq, normalize(url))]

\* the body of add_url on store sv and queues dq: a new hash is persisted with
\* completed = False and enqueued, a known hash changes nothing.  urlparse runs
\* after the record is written, so a URL it raises on is stored and not enqueued
AddUrlResult(sv, dq, url) ==
    LET nurl == normalize(url)
        urlhash == get_urlhash(nurl)
    IN  IF urlhash \notin DOMAIN sv
        THEN [save |-> Put(sv, urlhash, <<nurl, FALSE>>),
              dq   |-> IF ParsedUrl[nurl].error THEN dq ELSE Enqueue(dq, nurl)]
        ELSE [save |-> sv, dq |-> dq]

RECURSIVE AddAll(_, _, _)
\* for url in urls: self.add_url(url)
AddAll(sv, dq, urls) ==
    IF urls = <<>> THEN [save |-> sv, dq |-> dq]
    ELSE LET r == AddUrlResult(sv, dq, Head(urls))
         IN  AddAll(r.save, r.dq, Tail(urls))

RECURSIVE Orders(_)
\* the sequences that list every element of set S once
Orders(S) ==
    IF S = {} THEN {<<>>}
    ELSE UNION {{<<x>> \o rest : rest \in Orders(S \ {x})} : x \in S}

\* the orders in which a store can hand out its records (shelve iterates in the
\* order of the underlying dbm file, which no caller controls)
StoreOrders(sv) ==
    Orders(DOMAIN sv)

RECURSIVE ParseSaveFile_IgnoreCompleted(_, _, _)
\* a faulty reload: every record that passes is_valid is enqueued, completed or not
ParseSaveFile_IgnoreCompleted(sv, order, dq) ==
    IF order = <<>> THEN dq
    ELSE ParseSaveFile_IgnoreCompleted(sv, Tail(order),
                                       IF ValidUrl[sv[Head(order)][1]]
                                       THEN Enqueue(dq, sv[Head(order)][1])
                                       ELSE dq)

RECURSIVE ParseSaveFile(_, _, _)
\* _parse_save_file over the records order[1], order[2], ...: a record that is
\* not completed and passes is_valid is appended to its domain's queue
ParseSaveFile(sv, order, dq) ==
    IF order = <<>> THEN dq
    ELSE LET url == sv[Head(order)][1]
             completed == sv[Head(order)][2]
         IN  ParseSaveFile(sv, Tail(order),
                           IF ~completed /\ ValidUrl[url]
                           THEN Enqueue(dq, url)
                           ELSE dq)

\* _parse_save_file raises: is_valid is called on a record that is not completed
\* and urlparse raises on its URL; nothing in _parse_save_file or __init__
\* catches it
ParseSaveFileRaises(sv) ==
    \E h \in DOMAIN sv : ~sv[h][2] /\ is_valid_raises(sv[h][1])

\* a faulty constructor: the seeds are added when the reload found nothing to do
NewFrontierFrom_SeedWhenIdle(old, restartFlag, order, seeds) ==
    IF restartFlag \/ ParseSaveFile(old, order, <<>>) = <<>>
    THEN AddAll(IF restartFlag THEN <<>> ELSE old, <<>>, seeds)
    ELSE [save |-> old, dq |-> ParseSaveFile(old, order, <<>>)]

\* Frontier.__init__ with config.seed_urls = seeds: the store and the queues it
\* leaves.  old is the save file found on disk (<<>> when there is none), order
\* the store's iteration order
NewFrontierFrom(old, restartFlag, order, seeds) ==
    IF restartFlag
    THEN AddAll(<<>>, <<>>, seeds)
    ELSE LET dq == ParseSaveFile(old, order, <<>>)
         IN  IF DOMAIN old = {}
             THEN AddAll(old, dq, seeds)
             ELSE [save |-> old, dq |-> dq]

\* Frontier.__init__ with the seeds of the crawl
NewFrontier(old, restartFlag, order) ==
    NewFrontierFrom(old, restartFlag, order, seed_urls)

\* the URLs the add_url calls of Frontier.__init__ enqueue, in order: the seeds
\* (distinct URLs that parse) on a restart or an empty store, none on a reload
ConstructorLog(old, restartFlag, seeds) ==
    IF restartFlag \/ DOMAIN old = {}
    THEN [i \in 1..Len(seeds) |-> normalize(seeds[i])]
    ELSE <<>>

\* self.last_accessed.get(domain, 0)
LastTime(la, domain) ==
    IF domain \in DOMAIN la THEN la[domain] ELSE 0

\* a faulty readiness test: any time at all since the last access is enough
Ready_AnyGap(la, domain, current_time) ==
    current_time - LastTime(la, domain) > 0

\* time_since_last >= politeness_delay
Ready(la, domain, current_time) ==
    current_time - LastTime(la, domain) >= time_delay

\* a faulty scan: the head of the first non-empty queue is returned and left in
\* its queue
Scan_NoPopleft(rest, kept, la, current_time) ==
    LET nonEmpty == SelectSeq(rest, LAMBDA e : e.queue # <<>>)
    IN  IF nonEmpty = <<>> \/ ~Ready(la, nonEmpty[1].domain, current_time)
        THEN [url |-> None, domain |-> None, dq |-> rest]
        ELSE [url |-> Head(nonEmpty[1].queue), domain |-> nonEmpty[1].domain,
              dq |-> rest]

\* a fair scan: of the domains that are ready the one served longest ago gives
\* up the head of its queue
Scan_LeastRecent(rest, kept, la, current_time) ==
    LET nonEmpty == SelectSeq(rest, LAMBDA e : e.queue # <<>>)
        ready == {i \in 1..Len(nonEmpty) : Ready(la, nonEmpty[i].domain, current_time)}
    IN  IF ready = {} THEN [url |-> None, domain |-> None, dq |-> nonEmpty]
        ELSE LET i == CHOOSE x \in ready : \A y \in ready :
                          \/ LastTime(la, nonEmpty[x].domain) < LastTime(la, nonEmpty[y].domain)
                          \/ /\ LastTime(la, nonEmpty[x].domain) = LastTime(la, nonEmpty[y].domain)
                             /\ x <= y
             IN  [url |-> Head(nonEmpty[i].queue), domain |-> nonEmpty[i].domain,
                  dq |-> [nonEmpty EXCEPT ![i].queue = Tail(@)]]

RECURSIVE Scan(_, _, _, _)
\* the loop of get_tbd_url over the keys not yet visited (rest), with the entries
\* visited and kept so far (kept): an empty queue is deleted, the first domain
\* that is ready gives up the head of its queue
Scan(rest, kept, la, current_time) ==
    IF rest = <<>> THEN [url |-> None, domain |-> None, dq |-> kept]
    ELSE LET e == Head(rest)
         IN  IF e.queue = <<>>
             THEN Scan(Tail(rest), kept, la, current_time)
             ELSE IF Ready(la, e.domain, current_time)
             THEN [url |-> Head(e.queue), domain |-> e.domain,
                   dq |-> kept \o <<[e EXCEPT !.queue = Tail(@)]>> \o Tail(rest)]
             ELSE Scan(Tail(rest), Append(kept, e), la, current_time)

\* a faulty has_pending_urls: only the queues are looked at
has_pending_urls_QueuesOnly ==
    \E i \in 1..Len(domain_queues) : Len(domain_queues[i].queue) > 0

\* a faulty has_pending_urls: only the counter is looked at
has_pending_urls_CounterOnly ==
    active_downloads > 0

\* has_pending_urls()
has_pending_urls ==
    \/ \E i \in 1..Len(domain_queues) : Len(domain_queues[i].queue) > 0
    \/ active_downloads > 0

\* a faulty get_tbd_url: the timestamp of a domain goes with its queue
get_tbd_url_PruneForgets(result) ==
    LET r == Scan(domain_queues, <<>>, last_accessed, now)
        keys == {r.dq[i].domain : i \in 1..Len(r.dq)}
        kept == [d \in DOMAIN last_accessed \cap keys |-> last_accessed[d]]
    IN  /\ result = r.url
        /\ domain_queues' = r.dq
        /\ IF r.url = None
           THEN /\ last_accessed' = kept
                /\ UNCHANGED <<active_downloads, npop, lastPop>>
           ELSE /\ last_accessed' = Put(kept, r.domain, now)
                /\ active_downloads' = active_downloads + 1
                /\ npop' = [npop EXCEPT ![r.url] = @ + 1]
                /\ lastPop' = Put(lastPop, r.domain, now)
        /\ UNCHANGED <<save, nadd, enqLog, nmark>>

\* get_tbd_url(), run under self.lock: the clock is read, the queues are scanned,
\* and a URL that is found is popped, its domain stamped and the counter raised.
\* result is the URL returned, or None
get_tbd_url(result) ==
    LET r == Scan(domain_queues, <<>>, last_accessed, now)
    IN  /\ result = r.url
        /\ domain_queues' = r.dq
        /\ IF r.url = None
           THEN UNCHANGED <<last_accessed, active_downloads, npop, lastPop>>
           ELSE /\ last_accessed' = Put(last_accessed, r.domain, now)
                /\ active_downloads' = active_downloads + 1
                /\ npop' = [npop EXCEPT ![r.url] = @ + 1]
                /\ lastPop' = Put(lastPop, r.domain, now)
        /\ UNCHANGED <<save, nadd, enqLog, nmark>>

\* add_url(url), the store and the queues updated under self.lock
add_url(url) ==
    LET r == AddUrlResult(save, domain_queues, url)
    IN  /\ save' = r.save
        /\ domain_queues' = r.dq
        /\ nadd' = [nadd EXCEPT ![normalize(url)] = @ + 1]
        /\ enqLog' = IF r.dq # domain_queues THEN Append(enqLog, normalize(url))
                     ELSE enqLog
        /\ UNCHANGED <<last_accessed, active_downloads, npop, lastPop, nmark>>

\* mark_url_complete(url), under self.lock: the record is written with
\* completed = True whether or not the hash was known, and the counter lowered
mark_url_complete(url) ==
    /\ save' = Put(save, get_urlhash(url), <<url, TRUE>>)
    /\ active_downloads' = active_downloads - 1
    /\ nmark' = [nmark EXCEPT ![url] = @ + 1]
    /\ UNCHANGED <<domain_queues, last_accessed, npop, lastPop, nadd, enqLog>>

(***************************************************************************)
(* scraper.scraper and extract_next_links                                  *)
(***************************************************************************)

\* extract_next_links raises: urljoin raises ValueError on an href that does
\* not parse, and nothing catches it
extract_raises(r) ==
    /\ r.status = 200 /\ r.raw_response
    /\ \E i \in 1..Len(r.hrefs) : ParsedUrl[r.hrefs[i]].error

\* extract_next_links(url, resp): no links unless the status is 200 and there
\* is a raw response; otherwise the page's anchors
extract_next_links(r) ==
    IF r.status # 200 \/ ~r.raw_response THEN <<>> ELSE r.hrefs

\* scraper(url, resp) raises
scraper_raises(r) ==
    \/ extract_raises(r)
    \/ \E i \in 1..Len(extract_next_links(r)) :
          ParsedUrl[extract_next_links(r)[i]].error

\* a faulty scraper: the links are returned without the is_valid filter
scraper_NoFilter(r) ==
    extract_next_links(r)

\* scraper(url, resp): [link for link in links if is_valid(link)]
scraper(r) ==
    SelectSeq(extract_next_links(r), LAMBDA link : ValidUrl[link])

(***************************************************************************)
(* Worker.run                                                              *)
(***************************************************************************)

\* worker.py line 69: tbd_url = self.frontier.get_tbd_url()
GetTbdUrl(w) ==
    /\ pc[w] = "get_tbd_url"
    /\ \E result \in {Scan(domain_queues, <<>>, last_accessed, now).url} :
          /\ get_tbd_url(result)
          /\ tbd_url' = [tbd_url EXCEPT ![w] = result]
          /\ pc' = [pc EXCEPT ![w] = IF result = None THEN "has_pending_urls"
                                     ELSE "download"]
    /\ UNCHANGED <<restart, now, resp, scraped_urls, nfetch, lastFetch, ncalls>>
    /\ UNCHANGED <<statsVars, validVars>>

\* worker.py lines 71-80: no URL; sleep and retry while the frontier has pending
\* work, leave the loop otherwise
HasPendingUrls(w) ==
    /\ pc[w] = "has_pending_urls"
    /\ pc' = [pc EXCEPT ![w] = IF has_pending_urls THEN "get_tbd_url" ELSE "done"]
    /\ UNCHANGED <<restart, frontierVars, now, tbd_url, resp, scraped_urls, npop,
                   lastPop, nadd, enqLog, nfetch, lastFetch, nmark, ncalls>>
    /\ UNCHANGED <<statsVars, validVars>>

\* worker.py lines 83-89: download the page and scrape it, where download can
\* return any response of set responses.  An exception out of scraper ends the
\* thread
DownloadFrom(w, responses) ==
    /\ pc[w] = "download"
    /\ \E r \in responses :
          /\ resp' = [resp EXCEPT ![w] = r]
          /\ IF scraper_raises(r)
             THEN /\ pc' = [pc EXCEPT ![w] = "crashed"]
                  /\ UNCHANGED scraped_urls
             ELSE /\ scraped_urls' = [scraped_urls EXCEPT ![w] = scraper(r)]
                  /\ pc' = [pc EXCEPT ![w] = IF scraper(r) = <<>>
                                             THEN "mark_url_complete"
                                             ELSE "add_url"]
    /\ nfetch' = [nfetch EXCEPT ![tbd_url[w]] = @ + 1]
    /\ lastFetch' = Put(lastFetch, DomainOf(tbd_url[w]), now)
    /\ UNCHANGED <<restart, frontierVars, now, tbd_url, npop, lastPop, nadd, enqLog,
                   nmark,
                   ncalls>>
    /\ UNCHANGED <<statsVars, validVars>>

Download(w) ==
    DownloadFrom(w, RESPONSES)

\* worker.py lines 92-93: one turn of the loop over scraped_urls
AddUrl(w) ==
    /\ pc[w] = "add_url"
    /\ add_url(Head(scraped_urls[w]))
    /\ scraped_urls' = [scraped_urls EXCEPT ![w] = Tail(@)]
    /\ pc' = [pc EXCEPT ![w] = IF Tail(scraped_urls[w]) = <<>>
                               THEN "mark_url_complete"
                               ELSE "add_url"]
    /\ UNCHANGED <<restart, now, tbd_url, resp, nfetch, lastFetch, ncalls>>
    /\ UNCHANGED <<statsVars, validVars>>

\* worker.py line 96: self.frontier.mark_url_complete(tbd_url), then the next
\* turn of the loop (tbd_url and resp are dead until they are assigned again)
MarkUrlComplete(w) ==
    /\ pc[w] = "mark_url_complete"
    /\ mark_url_complete(tbd_url[w])
    /\ pc' = [pc EXCEPT ![w] = "get_tbd_url"]
    /\ tbd_url' = [tbd_url EXCEPT ![w] = None]
    /\ resp' = [resp EXCEPT ![w] = NoResp]
    /\ UNCHANGED <<restart, now, scraped_urls, nfetch, lastFetch, ncalls>>
    /\ UNCHANGED <<statsVars, validVars>>

(***************************************************************************)
(* The clock and the process                                               *)
(***************************************************************************)

\* a clock value t seen from a time origin moved forward by one tick
Rebase(t) ==
    IF t > 0 THEN t - 1 ELSE 0

\* time passes: time.time() grows by one tick.  At MaxTime the origin moves
\* instead, which leaves every difference the code computes unchanged (a stamp
\* that reaches 0 is at least MaxTime >= time_delay old, as a missing one)
Tick ==
    /\ IF now < MaxTime
       THEN /\ now' = now + 1
            /\ UNCHANGED <<last_accessed, lastPop, lastFetch>>
       ELSE /\ now' = now
            /\ last_accessed' = [d \in DOMAIN last_accessed |-> Rebase(last_accessed[d])]
            /\ lastPop' = [d \in DOMAIN lastPop |-> Rebase(lastPop[d])]
            /\ lastFetch' = [d \in DOMAIN lastFetch |-> Rebase(lastFetch[d])]
    /\ UNCHANGED <<restart, save, domain_queues, active_downloads, workerVars, npop,
                   nadd, enqLog, nfetch, nmark, ncalls>>
    /\ UNCHANGED <<statsVars, validVars>>

\* a process that has just constructed its Crawler on the save file left by the
\* process before it: Frontier.__init__ has run, no Worker has started
Launch(restartFlag, order) ==
    LET f == NewFrontier(save, restartFlag, order)
    IN  /\ restart' = restartFlag
        /\ save' = f.save
        /\ domain_queues' = f.dq
        /\ last_accessed' = <<>>
        /\ active_downloads' = 0
        /\ pc' = [w \in Workers |-> "get_tbd_url"]
        /\ tbd_url' = [w \in Workers |-> None]
        /\ resp' = [w \in Workers |-> NoResp]
        /\ scraped_urls' = [w \in Workers |-> <<>>]
        /\ npop' = [u \in URLS |-> 0]
        /\ lastPop' = <<>>
        /\ nadd' = [u \in URLS |-> 0]
        /\ enqLog' = ConstructorLog(save, restartFlag, seed_urls)
        /\ nfetch' = [u \in URLS |-> 0]
        /\ lastFetch' = <<>>
        /\ nmark' = [u \in URLS |-> 0]
        /\ ncalls' = 0
        /\ now' = now
        /\ UNCHANGED <<statsVars, validVars>>

\* the process ends at any point (killed, or all threads over) and launch.py is
\* run again with --restart: the save file is deleted
RelaunchRestart ==
    Launch(TRUE, <<>>)

\* the process ends at any point and launch.py is run again without --restart:
\* the save file is read back, in whatever order the store iterates
RelaunchResume ==
    \E order \in StoreOrders(save) : Launch(FALSE, order)

\* the first launch: there is no save file, so either value of --restart seeds
\* the frontier, and the Workers are at the top of run
CrawlerInit ==
    /\ restart \in BOOLEAN
    /\ now = time_delay
    /\ save = NewFrontier(<<>>, restart, <<>>).save
    /\ domain_queues = NewFrontier(<<>>, restart, <<>>).dq
    /\ last_accessed = <<>>
    /\ active_downloads = 0
    /\ pc = [w \in Workers |-> "get_tbd_url"]
    /\ tbd_url = [w \in Workers |-> None]
    /\ resp = [w \in Workers |-> NoResp]
    /\ scraped_urls = [w \in Workers |-> <<>>]
    /\ npop = [u \in URLS |-> 0]
    /\ lastPop = <<>>
    /\ nadd = [u \in URLS |-> 0]
    /\ enqLog = ConstructorLog(<<>>, restart, seed_urls)
    /\ nfetch = [u \in URLS |-> 0]
    /\ lastFetch = <<>>
    /\ nmark = [u \in URLS |-> 0]
    /\ ncalls = 0

Init ==
    CrawlerInit /\ StatsInit /\ ValidInit

WorkerStep(w) ==
    \/ GetTbdUrl(w)
    \/ HasPendingUrls(w)
    \/ Download(w)
    \/ AddUrl(w)
    \/ MarkUrlComplete(w)

\* the crawler as launch.py runs it, over any number of process lifetimes
Next ==
    \/ \E w \in Workers : WorkerStep(w)
    \/ Tick
    \/ RelaunchRestart
    \/ RelaunchResume

Spec ==
    Init /\ [][Next]_vars

(***************************************************************************)
(* One process lifetime under fair scheduling                              *)
(***************************************************************************)

\* one process: the Worker threads and the clock
NextRun ==
    \/ \E w \in Workers : WorkerStep(w)
    \/ Tick

\* every thread that can take a step eventually takes one (the threads are
\* started by Crawler.start_async and never suspended), and time passes
FairSpec ==
    /\ Init
    /\ [][NextRun]_vars
    /\ \A w \in Workers : WF_vars(WorkerStep(w))
    /\ WF_vars(Tick)

(***************************************************************************)
(* The Frontier's operations called directly, in any order                 *)
(***************************************************************************)

\* frontier.add_url(u)
ApiAddUrl ==
    /\ ncalls < MaxCalls
    /\ \E u \in URLS : add_url(u)
    /\ ncalls' = ncalls + 1
    /\ UNCHANGED <<restart, now, workerVars, nfetch, lastFetch>>
    /\ UNCHANGED <<statsVars, validVars>>

\* frontier.get_tbd_url()
ApiGetTbdUrl ==
    /\ ncalls < MaxCalls
    /\ get_tbd_url(Scan(domain_queues, <<>>, last_accessed, now).url)
    /\ ncalls' = ncalls + 1
    /\ UNCHANGED <<restart, now, workerVars, nfetch, lastFetch>>
    /\ UNCHANGED <<statsVars, validVars>>

\* frontier.mark_url_complete(u)
ApiMarkUrlComplete ==
    /\ ncalls < MaxCalls
    /\ \E u \in URLS : mark_url_complete(u)
    /\ ncalls' = ncalls + 1
    /\ UNCHANGED <<restart, now, workerVars, nfetch, lastFetch>>
    /\ UNCHANGED <<statsVars, validVars>>

NextAPI ==
    \/ ApiAddUrl
    \/ ApiGetTbdUrl
    \/ ApiMarkUrlComplete
    \/ Tick

SpecAPI ==
    Init /\ [][NextAPI]_vars

(***************************************************************************)
(* End to end: one seed, one Worker, a fetcher that returns one page       *)
(***************************************************************************)

\* the Worker of the scenario
E2EWorker == 1

\* launch.py on no save file with E2ESeeds as config.seed_urls and
\* threads_count = 1
InitE2E ==
    /\ restart \in BOOLEAN
    /\ now = time_delay
    /\ save = AddAll(<<>>, <<>>, E2ESeeds).save
    /\ domain_queues = AddAll(<<>>, <<>>, E2ESeeds).dq
    /\ last_accessed = <<>>
    /\ active_downloads = 0
    /\ pc = [w \in {E2EWorker} |-> "get_tbd_url"]
    /\ tbd_url = [w \in {E2EWorker} |-> None]
    /\ resp = [w \in {E2EWorker} |-> NoResp]
    /\ scraped_urls = [w \in {E2EWorker} |-> <<>>]
    /\ npop = [u \in URLS |-> 0]
    /\ lastPop = <<>>
    /\ nadd = [u \in URLS |-> 0]
    /\ enqLog = ConstructorLog(<<>>, restart, E2ESeeds)
    /\ nfetch = [u \in URLS |-> 0]
    /\ lastFetch = <<>>
    /\ nmark = [u \in URLS |-> 0]
    /\ ncalls = 0
    /\ StatsInit
    /\ ValidInit

\* download() as the fetcher of the scenario answers it
E2EDownload ==
    DownloadFrom(E2EWorker, E2EResponses(tbd_url[E2EWorker]))

NextE2E ==
    \/ GetTbdUrl(E2EWorker)
    \/ HasPendingUrls(E2EWorker)
    \/ E2EDownload
    \/ AddUrl(E2EWorker)
    \/ MarkUrlComplete(E2EWorker)
    \/ Tick

SpecE2E ==
    InitE2E /\ [][NextE2E]_vars

(***************************************************************************)
(* scraper._record_stats, _log_crawl and _save_report                      *)
(*                                                                         *)
(* The Worker threads call _record_stats through scraper() for a response  *)
(* served as text/html; the main thread runs _save_report at exit and in   *)
(* the SIGTERM handler.  The crawl above fetches pages without that        *)
(* content type, so that there the statistics stay as they are.            *)
(***************************************************************************)

RECURSIVE Sum(_, _)
\* the sum of f over the set S
Sum(f, S) ==
    IF S = {} THEN 0
    ELSE LET x == CHOOSE x \in S : TRUE
         IN  f[x] + Sum(f, S \ {x})

\* Lock.acquire() returns only when nobody holds the lock
Longer_OrEqual(total_word_count, longest) ==
    total_word_count >= longest[2]

\* if total_word_count > longest_page[1]
Longer(total_word_count, longest) ==
    total_word_count > longest[2]

CanAcquire_Always(lock) ==
    TRUE

CanAcquire(lock) ==
    lock = Unlocked

\* thread t enters _record_stats(page.url, soup): the text is extracted and
\* tokenized
RecordStats(t) ==
    /\ mainpc = "running"
    /\ rs[t].pc = "idle"
    /\ Sum(ncalled, DOMAIN ncalled) < MaxRecords
    /\ \E page \in STATS_PAGES :
          /\ rs' = [rs EXCEPT ![t] = [Idle EXCEPT !.pc = "tokens", !.url = page.url]]
          /\ ncalled' = [ncalled EXCEPT ![page.url] = @ + 1]
    /\ UNCHANGED <<unique_pages, word_counts, longest_page, subdomain_pages,
                   stats_lock, log_lock, crawl_log, report, main, mainpc, nrecorded,
                   nsignals>>
    /\ UNCHANGED <<crawlerVars, validVars>>

\* if len(tokens) < 50: return
RsLowContent(t) ==
    /\ mainpc # "exited"
    /\ rs[t].pc = "tokens"
    /\ rs' = [rs EXCEPT ![t] = IF LowContent(Locals[rs[t].url].tokens) THEN Idle
                               ELSE [@ EXCEPT !.pc = "acquire"]]
    /\ UNCHANGED <<unique_pages, word_counts, longest_page, subdomain_pages,
                   stats_lock, log_lock, crawl_log, report, main, mainpc, ncalled,
                   nrecorded, nsignals>>
    /\ UNCHANGED <<crawlerVars, validVars>>

\* with stats_lock: entered
RsAcquire(t) ==
    /\ mainpc # "exited"
    /\ rs[t].pc = "acquire"
    /\ CanAcquire(stats_lock)
    /\ stats_lock' = <<"worker", t>>
    /\ rs' = [rs EXCEPT ![t].pc = "update"]
    /\ UNCHANGED <<unique_pages, word_counts, longest_page, subdomain_pages,
                   log_lock, crawl_log, report, main, mainpc, ncalled, nrecorded,
                   nsignals>>
    /\ UNCHANGED <<crawlerVars, validVars>>

\* unique_pages, subdomain_pages and longest_page are updated
RsUpdate(t) ==
    LET l == Locals[rs[t].url]
    IN  /\ mainpc # "exited"
        /\ rs[t].pc = "update"
        /\ unique_pages' = unique_pages \cup {l.clean_url}
        /\ subdomain_pages' =
              IF EndsWith(l.hostname, ".uci.edu") \/ l.hostname = "uci.edu"
              THEN Put(subdomain_pages, l.hostname,
                       (IF l.hostname \in DOMAIN subdomain_pages
                        THEN subdomain_pages[l.hostname] ELSE {})
                           \cup {l.clean_url})
              ELSE subdomain_pages
        /\ longest_page' = IF Longer(l.total_word_count, longest_page)
                           THEN <<l.clean_url, l.total_word_count>>
                           ELSE longest_page
        /\ rs' = [rs EXCEPT ![t].words = l.words,
                            ![t].pc = IF l.words = <<>> THEN "release" ELSE "read"]
        /\ UNCHANGED <<word_counts, stats_lock, log_lock, crawl_log, report, main,
                       mainpc, ncalled, nrecorded, nsignals>>
        /\ UNCHANGED <<crawlerVars, validVars>>

\* word_counts[word] += ... : the old count is read
RsRead(t) ==
    /\ mainpc # "exited"
    /\ rs[t].pc = "read"
    /\ rs' = [rs EXCEPT ![t].tmp = word_counts[Head(rs[t].words)],
                        ![t].pc = "write"]
    /\ UNCHANGED <<unique_pages, word_counts, longest_page, subdomain_pages,
                   stats_lock, log_lock, crawl_log, report, main, mainpc, ncalled,
                   nrecorded, nsignals>>
    /\ UNCHANGED <<crawlerVars, validVars>>

\* word_counts[word] += min(count, PER_PAGE_CAP): the new count is stored
RsWrite(t) ==
    LET word == Head(rs[t].words)
    IN  /\ mainpc # "exited"
        /\ rs[t].pc = "write"
        /\ word_counts' = [word_counts EXCEPT
                              ![word] = rs[t].tmp
                                          + Capped(Locals[rs[t].url].page_freqs[word])]
        /\ rs' = [rs EXCEPT ![t].words = Tail(@),
                            ![t].tmp = 0,
                            ![t].pc = IF Tail(rs[t].words) = <<>> THEN "release"
                                      ELSE "read"]
        /\ UNCHANGED <<unique_pages, longest_page, subdomain_pages, stats_lock,
                       log_lock, crawl_log, report, main, mainpc, ncalled, nrecorded,
                       nsignals>>
        /\ UNCHANGED <<crawlerVars, validVars>>

\* the with block is left
RsRelease(t) ==
    /\ mainpc # "exited"
    /\ rs[t].pc = "release"
    /\ stats_lock' = Unlocked
    /\ nrecorded' = [nrecorded EXCEPT ![rs[t].url] = @ + 1]
    /\ rs' = [rs EXCEPT ![t].pc = "log_lock"]
    /\ UNCHANGED <<unique_pages, word_counts, longest_page, subdomain_pages,
                   log_lock, crawl_log, report, main, mainpc, ncalled, nsignals>>
    /\ UNCHANGED <<crawlerVars, validVars>>

\* _log_crawl: with log_lock: entered, the log file opened
LogAcquire(t) ==
    /\ mainpc # "exited"
    /\ rs[t].pc = "log_lock"
    /\ CanAcquire(log_lock)
    /\ log_lock' = <<"worker", t>>
    /\ rs' = [rs EXCEPT ![t].pc = "page_count"]
    /\ UNCHANGED <<unique_pages, word_counts, longest_page, subdomain_pages,
                   stats_lock, crawl_log, report, main, mainpc, ncalled, nrecorded,
                   nsignals>>
    /\ UNCHANGED <<crawlerVars, validVars>>

\* with stats_lock: page_count = len(unique_pages)
LogPageCount(t) ==
    /\ mainpc # "exited"
    /\ rs[t].pc = "page_count"
    /\ CanAcquire(stats_lock)
    /\ rs' = [rs EXCEPT ![t].tmp = Cardinality(unique_pages),
                        ![t].pc = "log_write"]
    /\ UNCHANGED <<unique_pages, word_counts, longest_page, subdomain_pages,
                   stats_lock, log_lock, crawl_log, report, main, mainpc, ncalled,
                   nrecorded, nsignals>>
    /\ UNCHANGED <<crawlerVars, validVars>>

\* the entry is written, the file closed and log_lock released; _record_stats
\* returns
LogWrite(t) ==
    LET l == Locals[rs[t].url]
    IN  /\ mainpc # "exited"
        /\ rs[t].pc = "log_write"
        /\ crawl_log' = Append(crawl_log, [url |-> l.clean_url,
                                           word_count |-> l.total_word_count,
                                           subdomain |-> l.hostname,
                                           page_count |-> rs[t].tmp])
        /\ log_lock' = Unlocked
        /\ rs' = [rs EXCEPT ![t] = Idle]
        /\ UNCHANGED <<unique_pages, word_counts, longest_page, subdomain_pages,
                       stats_lock, report, main, mainpc, ncalled, nrecorded,
                       nsignals>>
        /\ UNCHANGED <<crawlerVars, validVars>>

\* an invocation of _save_report on the main thread, about to take stats_lock
SaveReportFrame(kind) ==
    [kind |-> kind, pc |-> "acquire", unique_count |-> 0, longest |-> <<"", 0>>,
     top_words |-> [word \in WORDS |-> 0], subdomain_counts |-> <<>>]

\* what _save_report reads inside its with stats_lock block
Snapshot(frame) ==
    [frame EXCEPT !.unique_count = Cardinality(unique_pages),
                  !.longest = longest_page,
                  !.top_words = word_counts,
                  !.subdomain_counts = [sub \in DOMAIN subdomain_pages |->
                                           Cardinality(subdomain_pages[sub])]]

\* what _save_report writes to report.json
ReportOf(frame) ==
    [unique_pages_count |-> frame.unique_count,
     longest_page |-> frame.longest,
     top_50_words |-> frame.top_words,
     subdomains |-> frame.subdomain_counts]

\* the invocation that runs: the innermost one
Top == main[Len(main)]

\* all Workers have returned, Crawler.join() and main() return, and the
\* interpreter runs the atexit callback _save_report
AtExit ==
    /\ mainpc = "running"
    /\ main = <<>>
    /\ \A t \in Workers : rs[t].pc = "idle"
    /\ mainpc' = "exiting"
    /\ main' = <<SaveReportFrame("atexit")>>
    /\ UNCHANGED <<unique_pages, word_counts, longest_page, subdomain_pages,
                   stats_lock, log_lock, crawl_log, report, rs, ncalled, nrecorded,
                   nsignals>>
    /\ UNCHANGED <<crawlerVars, validVars>>

\* SIGTERM is delivered: the main thread suspends what it is doing and runs
\* _handle_sigterm, which calls _save_report
SigTerm ==
    /\ mainpc # "exited"
    /\ nsignals < MaxSignals
    /\ main' = Append(main, SaveReportFrame("sigterm"))
    /\ nsignals' = nsignals + 1
    /\ UNCHANGED <<unique_pages, word_counts, longest_page, subdomain_pages,
                   stats_lock, log_lock, crawl_log, report, rs, mainpc, ncalled,
                   nrecorded>>
    /\ UNCHANGED <<crawlerVars, validVars>>

\* _save_report: with stats_lock: entered
SaveReportAcquire ==
    /\ mainpc # "exited"
    /\ main # <<>>
    /\ Top.pc = "acquire"
    /\ CanAcquire(stats_lock)
    /\ stats_lock' = <<"main", Len(main)>>
    /\ main' = [main EXCEPT ![Len(main)].pc = "locked"]
    /\ UNCHANGED <<unique_pages, word_counts, longest_page, subdomain_pages,
                   log_lock, crawl_log, report, rs, mainpc, ncalled, nrecorded,
                   nsignals>>
    /\ UNCHANGED <<crawlerVars, validVars>>

\* the statistics are read and the with block is left
SaveReportSnapshot ==
    /\ mainpc # "exited"
    /\ main # <<>>
    /\ Top.pc = "locked"
    /\ main' = [main EXCEPT ![Len(main)] = [Snapshot(@) EXCEPT !.pc = "write"]]
    /\ stats_lock' = Unlocked
    /\ UNCHANGED <<unique_pages, word_counts, longest_page, subdomain_pages,
                   log_lock, crawl_log, report, rs, mainpc, ncalled, nrecorded,
                   nsignals>>
    /\ UNCHANGED <<crawlerVars, validVars>>

\* the report files are written and _save_report returns.  In the handler
\* sys.exit(0) follows: SystemExit unwinds whatever the main thread was doing,
\* a with block it was in releases its lock, and unless the interpreter was
\* already exiting the atexit callback runs next
SaveReportWrite ==
    /\ mainpc # "exited"
    /\ main # <<>>
    /\ Top.pc = "write"
    /\ report' = Append(report, ReportOf(Top))
    /\ IF Top.kind = "sigterm"
       THEN /\ stats_lock' = IF stats_lock # Unlocked /\ stats_lock[1] = "main"
                             THEN Unlocked ELSE stats_lock
            /\ mainpc' = IF mainpc = "running" THEN "exiting" ELSE "exited"
            /\ main' = IF mainpc = "running" THEN <<SaveReportFrame("atexit")>>
                       ELSE <<>>
       ELSE /\ stats_lock' = stats_lock
            /\ mainpc' = "exited"
            /\ main' = <<>>
    /\ UNCHANGED <<unique_pages, word_counts, longest_page, subdomain_pages,
                   log_lock, crawl_log, rs, ncalled, nrecorded, nsignals>>
    /\ UNCHANGED <<crawlerVars, validVars>>

RecordStatsStep(t) ==
    \/ RecordStats(t)
    \/ RsLowContent(t)
    \/ RsAcquire(t)
    \/ RsUpdate(t)
    \/ RsRead(t)
    \/ RsWrite(t)
    \/ RsRelease(t)
    \/ LogAcquire(t)
    \/ LogPageCount(t)
    \/ LogWrite(t)

MainStep ==
    \/ AtExit
    \/ SigTerm
    \/ SaveReportAcquire
    \/ SaveReportSnapshot
    \/ SaveReportWrite

NextStats ==
    \/ \E t \in Workers : RecordStatsStep(t)
    \/ MainStep

InitStats ==
    Init /\ ~restart

SpecStats ==
    InitStats /\ [][NextStats]_vars

(***************************************************************************)
(* One call of is_valid                                                    *)
(***************************************************************************)

\* is_valid(url_checked) returns, or raises
IsValid ==
    /\ verdict = None
    /\ verdict' = IsValidResult[url_checked]
    /\ UNCHANGED <<url_checked, crawlerVars, statsVars>>

NextValid ==
    IsValid

InitValid ==
    /\ CrawlerInit /\ ~restart
    /\ StatsInit
    /\ url_checked \in IS_VALID_INPUTS
    /\ verdict = None

SpecValid ==
    InitValid /\ [][NextValid]_vars

(***************************************************************************)
(* Frontier.__init__ on a save file left by an earlier process             *)
(***************************************************************************)

\* the seeds of this launch: one URL twice (with and without the trailing
\* slash) and one that is_valid rejects
ReloadSeeds ==
    <<"http://a.ics.uci.edu/p", "http://a.ics.uci.edu/p/", "http://b.ics.uci.edu/x.pdf">>

\* the save files the launch can find: any of these URLs stored, each completed
\* or not (the last one is a URL urlparse raises on; add_url stores a URL before
\* it parses it)
STORES ==
    LET urls == {"http://a.ics.uci.edu/p", "http://a.ics.uci.edu/q",
                 "http://b.ics.uci.edu/x.pdf", "http://[::1"}
    IN  UNION {{[h \in {get_urlhash(u) : u \in S} |->
                    <<CHOOSE u \in S : get_urlhash(u) = h,
                      (CHOOSE u \in S : get_urlhash(u) = h) \in C>>] :
                C \in SUBSET S} : S \in SUBSET urls}

\* launch.py is started with either value of --restart and finds a save file;
\* no Frontier and no Worker exists yet
InitReload ==
    /\ restart \in BOOLEAN
    /\ save \in STORES
    /\ domain_queues = <<>>
    /\ pc = [w \in Workers |-> "boot"]
    /\ now = time_delay
    /\ last_accessed = <<>>
    /\ active_downloads = 0
    /\ tbd_url = [w \in Workers |-> None]
    /\ resp = [w \in Workers |-> NoResp]
    /\ scraped_urls = [w \in Workers |-> <<>>]
    /\ npop = [u \in URLS |-> 0]
    /\ lastPop = <<>>
    /\ nadd = [u \in URLS |-> 0]
    /\ enqLog = <<>>
    /\ nfetch = [u \in URLS |-> 0]
    /\ lastFetch = <<>>
    /\ nmark = [u \in URLS |-> 0]
    /\ ncalls = 0
    /\ StatsInit
    /\ ValidInit

\* Crawler.__init__ constructs the Frontier.  When _parse_save_file raises, the
\* exception leaves __init__ and launch.py: no Worker is ever created.
\* Otherwise the Workers are created and stand at the top of run
Construct ==
    /\ \A w \in Workers : pc[w] = "boot"
    /\ \E order \in StoreOrders(save) :
          IF ~restart /\ ParseSaveFileRaises(save)
          THEN /\ pc' = [w \in Workers |-> "aborted"]
               /\ UNCHANGED <<save, domain_queues>>
          ELSE /\ pc' = [w \in Workers |-> "get_tbd_url"]
               /\ save' = NewFrontierFrom(save, restart, order, ReloadSeeds).save
               /\ domain_queues' =
                     NewFrontierFrom(save, restart, order, ReloadSeeds).dq
    /\ UNCHANGED <<restart, last_accessed, active_downloads, now, tbd_url, resp,
                   scraped_urls, npop, lastPop, nadd, enqLog, nfetch, lastFetch,
                   nmark, ncalls>>
    /\ UNCHANGED <<statsVars, validVars>>

NextReload ==
    Construct

SpecReload ==
    InitReload /\ [][NextReload]_vars

(***************************************************************************)
(* One seed, one Worker, and a page with a document link that ends in "/"  *)
(***************************************************************************)

\* download() answers every request with the page
DispatchDownload ==
    DownloadFrom(E2EWorker, {[status |-> 200, raw_response |-> TRUE,
                              hrefs |-> DispatchPage]})

NextDispatch ==
    \/ GetTbdUrl(E2EWorker)
    \/ HasPendingUrls(E2EWorker)
    \/ DispatchDownload
    \/ AddUrl(E2EWorker)
    \/ MarkUrlComplete(E2EWorker)
    \/ Tick

SpecDispatch ==
    InitE2E /\ [][NextDispatch]_vars

(***************************************************************************)
(* What the properties below observe                                       *)
(***************************************************************************)

\* the number of times url stands in the queues dq
QueuedCount(dq, url) ==
    Cardinality({p \in UNION {{<<i, j>> : j \in 1..Len(dq[i].queue)} : i \in 1..Len(dq)} :
                    dq[p[1]].queue[p[2]] = url})

\* every domain queue is empty
AllQueuesEmpty ==
    \A i \in 1..Len(domain_queues) : domain_queues[i].queue = <<>>

\* the URLs that stand in some queue
QueuedUrls ==
    {u \in URLS : QueuedCount(domain_queues, u) > 0}

\* url has a record with completed = False
Incomplete(url) ==
    get_urlhash(url) \in DOMAIN save /\ save[get_urlhash(url)] = <<url, FALSE>>

\* url was returned by get_tbd_url in this process and mark_url_complete has not
\* been called for it
InFlight(url) ==
    npop[url] > nmark[url]

\* the Frontier is as its constructor left it: no operation has been called
Constructed ==
    \A u \in URLS : npop[u] = 0 /\ nadd[u] = 0 /\ nmark[u] = 0

\* the thread of Worker w has ended, by leaving the loop or by an exception
ThreadEnded(w) ==
    pc[w] \in {"done", "crashed"}

(***************************************************************************)
(* C1  politeness                                                          *)
(***************************************************************************)

\* C1: whenever get_tbd_url returns a URL of domain d at time t, the latest
\* earlier pop from d in this process (and so every earlier one) happened at a time
\* t' with t - t' >= time_delay, and last_accessed[d], if set, is at least
\* time_delay old
C1_PolitenessGap ==
    [][\A u \in URLS :
          npop'[u] > npop[u] =>
              /\ DomainOf(u) \in DOMAIN lastPop =>
                     now - lastPop[DomainOf(u)] >= time_delay
              /\ DomainOf(u) \in DOMAIN last_accessed =>
                     now - last_accessed[DomainOf(u)] >= time_delay]_vars

\* C1 witness: two URLs of one domain have been popped in this process
C1_Witness ==
    \E u, v \in URLS :
        /\ u # v /\ DomainOf(u) = DomainOf(v)
        /\ npop[u] = 1 /\ npop[v] = 1

(***************************************************************************)
(* C2  no URL is handed out twice                                          *)
(***************************************************************************)

\* C2: within one process lifetime no normalized URL is returned by get_tbd_url
\* more than once
C2_NoUrlPoppedTwice ==
    \A u \in URLS : npop[u] <= 1

\* C2 witness: a URL was popped and completed, add_url was called for it twice,
\* and another URL was popped as well
C2_Witness ==
    \E u, v \in URLS :
        /\ u # v /\ npop[v] = 1
        /\ npop[u] = 1 /\ nmark[u] = 1 /\ nadd[u] >= 2

(***************************************************************************)
(* C3  add_url is idempotent                                               *)
(***************************************************************************)

\* C3: an add_url call for a URL whose hash is in the store changes neither the
\* store nor a queue; any add_url call adds at most one hash; and a URL is
\* enqueued at most once (it stands in the queues at most once until it is popped,
\* and never again afterwards)
C3_AddUrlIdempotent ==
    /\ [][\A u \in URLS :
             nadd'[u] > nadd[u] =>
                 /\ get_urlhash(u) \in DOMAIN save =>
                        save' = save /\ domain_queues' = domain_queues
                 /\ Cardinality(DOMAIN save') <= Cardinality(DOMAIN save) + 1]_vars
    /\ [](\A u \in URLS : QueuedCount(domain_queues, u) + npop[u] <= 1)

\* C3 witness: add_url was called three times for one URL, which was popped and
\* completed in between, and the store holds the seeds only
C3_Witness ==
    \E u \in URLS :
        /\ nadd[u] >= 3 /\ npop[u] = 1 /\ nmark[u] = 1
        /\ Cardinality(DOMAIN save) = Len(seed_urls)

(***************************************************************************)
(* C4  has_pending_urls                                                    *)
(***************************************************************************)

\* C4: has_pending_urls() returns false if and only if every domain queue is
\* empty and active_downloads = 0
C4_HasPendingIff ==
    (~has_pending_urls) <=> (AllQueuesEmpty /\ active_downloads = 0)

\* C4 witness: a Worker is about to call has_pending_urls while the queues are
\* empty and a download is in flight
C4_Witness ==
    /\ AllQueuesEmpty /\ active_downloads > 0
    /\ \E w \in Workers : pc[w] = "has_pending_urls"

(***************************************************************************)
(* C5  reload without restart                                              *)
(***************************************************************************)

\* C5: after a Frontier is constructed with restart = false, the URLs in the
\* domain queues are exactly the URLs of the records with completed = False,
\* each enqueued once
C5_ResumeRequeuesIncomplete ==
    (~restart /\ Constructed) =>
        \A u \in URLS :
            QueuedCount(domain_queues, u) = IF Incomplete(u) THEN 1 ELSE 0

(***************************************************************************)
(* C6  the three conditions of a stored URL                                *)
(***************************************************************************)

\* C6: each URL that has a record in the store is in exactly one of three
\* conditions: once in the queues, in flight, or completed
C6_ExactlyOneCondition ==
    \A h \in DOMAIN save :
        LET u == save[h][1]
            n == QueuedCount(domain_queues, u)
        IN  /\ n <= 1
            /\ Cardinality({c \in {"queued", "inflight", "completed"} :
                              \/ c = "queued" /\ n = 1
                              \/ c = "inflight" /\ InFlight(u)
                              \/ c = "completed" /\ save[h][2]}) = 1

(***************************************************************************)
(* C7  active_downloads                                                    *)
(***************************************************************************)

\* C7: for every sequence of calls of the frontier's operations, active_downloads
\* is never negative, rises only in a get_tbd_url that returns a URL, and falls
\* only in a mark_url_complete for a URL that was popped and not yet marked
C7_ActiveDownloadsMatchesPops ==
    /\ [](active_downloads >= 0)
    /\ [][/\ active_downloads' > active_downloads =>
                \E u \in URLS : npop'[u] = npop[u] + 1
          /\ active_downloads' < active_downloads =>
                \E u \in URLS : nmark'[u] = nmark[u] + 1 /\ npop[u] > nmark[u]]_vars

(***************************************************************************)
(* C8  a Worker leaves only when the crawl is over                         *)
(***************************************************************************)

\* C8: a Worker is DONE only while every queue is empty and active_downloads = 0,
\* and a step that leaves some Worker DONE pops nothing and enqueues nothing
C8_DoneOnlyWhenExhausted ==
    /\ []((\E w \in Workers : pc[w] = "done") =>
              AllQueuesEmpty /\ active_downloads = 0)
    /\ [][(\E w \in Workers : pc[w] = "done" /\ pc'[w] = "done") =>
              npop' = npop /\ nadd' = nadd /\ QueuedUrls' = QueuedUrls]_vars

\* C8 witness: one Worker is DONE after URLs were completed, another Worker has
\* not left yet
C8_Witness ==
    /\ \E w \in Workers : pc[w] = "done"
    /\ \E w \in Workers : pc[w] \in {"get_tbd_url", "has_pending_urls"}
    /\ \E u \in URLS : nmark[u] = 1 /\ nadd[u] >= 1

(***************************************************************************)
(* C9  termination                                                         *)
(***************************************************************************)

\* C9: under fair scheduling every Worker eventually reaches DONE, and when all
\* Workers are DONE every record of the store has completed = True
C9_AllWorkersFinish ==
    /\ <>(\A w \in Workers : pc[w] = "done")
    /\ []((\A w \in Workers : pc[w] = "done") =>
              \A h \in DOMAIN save : save[h][2])

(***************************************************************************)
(* C10  one fetch and one completion per popped URL                        *)
(***************************************************************************)

\* C10: a popped URL is fetched at most once and marked at most once; links are
\* added only from a 200 response with content; a Worker whose thread has ended
\* has fetched and marked the URL it popped; and a popped URL is never in a queue
\* again
C10_PoppedUrlFetchedAndMarkedOnce ==
    /\ \A u \in URLS : nfetch[u] <= npop[u] /\ nmark[u] <= nfetch[u] /\ nfetch[u] <= 1
    /\ \A w \in Workers :
           pc[w] = "add_url" => resp[w].status = 200 /\ resp[w].raw_response
    /\ \A w \in Workers :
           ThreadEnded(w) /\ tbd_url[w] # None =>
               nfetch[tbd_url[w]] = 1 /\ nmark[tbd_url[w]] = 1
    /\ \A u \in URLS : npop[u] >= 1 => QueuedCount(domain_queues, u) = 0

(***************************************************************************)
(* C11  end to end                                                         *)
(***************************************************************************)

\* the URLs whose record has completed = True
CompletedUrls ==
    {save[h][1] : h \in {k \in DOMAIN save : save[k][2]}}

\* C11, as the code behaves: with one seed and one Worker, where the fetched page
\* exposes 3 links of which 2 pass is_valid, once the Worker is DONE 3 URLs are
\* marked complete (the seed and the 2 crawlable links) and has_pending_urls()
\* is false
C11_EndToEndSeedAndTwoLinks ==
    pc[E2EWorker] = "done" =>
        /\ Cardinality(CompletedUrls) = Len(E2ESeeds) + 2
        /\ Cardinality(DOMAIN save) = Len(E2ESeeds) + 2
        /\ ~has_pending_urls

\* C11 witness: the Worker is DONE after it fetched the seed and the two links
C11_Witness ==
    /\ pc[E2EWorker] = "done"
    /\ Cardinality({u \in URLS : nfetch[u] = 1 /\ nmark[u] = 1}) = 3

\* C11 as stated: once the Worker is DONE, 2 URLs are marked complete and
\* has_pending_urls() is false
C11_EndToEndTwoCompleted ==
    pc[E2EWorker] = "done" =>
        /\ Cardinality(CompletedUrls) = 2
        /\ ~has_pending_urls

(***************************************************************************)
(* C12  the gap between two fetches                                        *)
(***************************************************************************)

\* C12: whenever a Worker calls download for a URL of domain d, the latest
\* earlier download for a URL of d in this process was at least time_delay ago
C12_FetchGap ==
    [][\A u \in URLS :
          nfetch'[u] > nfetch[u] /\ DomainOf(u) \in DOMAIN lastFetch =>
              now - lastFetch[DomainOf(u)] >= time_delay]_vars

(***************************************************************************)
(* C13  first in, first out within a domain                                *)
(***************************************************************************)

\* url u stands before url v in sequence q
Before(q, u, v) ==
    \E i, j \in 1..Len(q) : i < j /\ q[i] = u /\ q[j] = v

\* C13: when get_tbd_url returns v, every URL u of the same netloc that add_url
\* enqueued before v in this process has been returned already
C13_FifoWithinDomain ==
    [][\A v \in URLS :
          npop'[v] > npop[v] =>
              \A u \in URLS :
                  DomainOf(u) = DomainOf(v) /\ Before(enqLog, u, v) => npop[u] >= 1]_vars

\* C13 witness: two URLs of one netloc that add_url enqueued were both popped,
\* with a URL of another netloc enqueued between them
C13_Witness ==
    \E u, v, x \in URLS :
        /\ DomainOf(u) = DomainOf(v) /\ DomainOf(x) # DomainOf(u)
        /\ Before(enqLog, u, v) /\ npop[u] = 1 /\ npop[v] = 1
        /\ Before(enqLog, u, x) /\ Before(enqLog, x, v)

(***************************************************************************)
(* C14  completed work is not downloaded again                             *)
(***************************************************************************)

\* url has a record with completed = True
Completed(url) ==
    get_urlhash(url) \in DOMAIN save /\ save[get_urlhash(url)] = <<url, TRUE>>

\* C14: except where a launch with --restart deletes the store, no step removes
\* a record or takes its completed flag back from True; get_tbd_url never returns
\* a URL whose record is completed; and a completed URL stands in no queue
C14_CompletedNeverPoppedAgain ==
    /\ [][RelaunchRestart \/
             \A h \in DOMAIN save :
                 /\ h \in DOMAIN save'
                 /\ save'[h][1] = save[h][1]
                 /\ save[h][2] => save'[h][2]]_vars
    /\ [][\A u \in URLS : npop'[u] > npop[u] => ~Completed(u)]_vars
    /\ [](\A u \in URLS : Completed(u) => QueuedCount(domain_queues, u) = 0)

\* C14 witness: in a process launched without --restart, a URL completed by an
\* earlier process has been passed to add_url again while another URL was marked
C14_Witness ==
    /\ ~restart
    /\ \E u, v \in URLS :
          /\ Completed(u) /\ nmark[u] = 0 /\ nadd[u] >= 1
          /\ nmark[v] = 1

(***************************************************************************)
(* C15  mark_url_complete on a URL the store has not seen                  *)
(***************************************************************************)

\* C15: a mark_url_complete(u) step leaves the record (u, True) under u's hash,
\* also when the hash was unseen, and every later add_url of u is a no-op:
\* it changes neither the store nor any queue
C15_MarkUnseenThenAddIsNoOp ==
    /\ [][\A u \in URLS : nmark'[u] > nmark[u] => Completed(u)']_vars
    /\ [][\A u \in URLS :
             nmark[u] >= 1 /\ nadd'[normalize(u)] > nadd[normalize(u)] =>
                 save' = save /\ domain_queues' = domain_queues]_vars

\* the same for the URLs that are their own normal form
C15_NormalFormOnly ==
    /\ [][\A u \in URLS : nmark'[u] > nmark[u] => Completed(u)']_vars
    /\ [][\A u \in URLS :
             u = normalize(u) /\ nmark[u] >= 1
               /\ nadd'[normalize(u)] > nadd[normalize(u)] =>
                 save' = save /\ domain_queues' = domain_queues]_vars

(***************************************************************************)
(* C16  word_counts is the sum of the capped per-page counts               *)
(***************************************************************************)

\* how often word stands among the tokens of the page with this URL
CountOnPage(url, word) ==
    Cardinality({i \in 1..Len(Locals[url].tokens) : Locals[url].tokens[i] = word})

\* no thread is between taking stats_lock in _record_stats and releasing it
NoUpdateInProgress ==
    \A t \in Workers : rs[t].pc \notin {"update", "read", "write", "release"}

\* C16: whenever no update is in progress, word_counts[w] is, for every word w,
\* the sum over the recorded pages (each with at least 50 tokens) of the number
\* of times w stands on the page, but at most 10 per page
C16_WordCountsAreCappedSums ==
    NoUpdateInProgress =>
        /\ \A url \in DOMAIN Locals :
              nrecorded[url] > 0 => Len(Locals[url].tokens) >= 50
        /\ \A word \in WORDS :
              word_counts[word] =
                  Sum([url \in DOMAIN Locals |->
                          nrecorded[url] * (IF CountOnPage(url, word) > 10 THEN 10
                                            ELSE CountOnPage(url, word))],
                      DOMAIN Locals)

\* C16 witness: two threads were in _record_stats at the same time, one with a
\* page that holds "alpha" 12 times and one with a page that holds it 3 times;
\* both have finished their update and neither has logged yet
C16_Witness ==
    /\ rs[1].pc = "log_lock" /\ rs[1].url = "http://a.ics.uci.edu/p#top"
    /\ rs[2].pc = "log_lock" /\ rs[2].url = "http://b.ics.uci.edu/x"
    /\ word_counts["alpha"] = 13

(***************************************************************************)
(* C17  the low-content filter                                             *)
(***************************************************************************)

\* the URLs of the pages with fewer than 50 tokens
ShortPages ==
    {url \in DOMAIN Locals : Len(Locals[url].tokens) < 50}

\* C17: the step of _record_stats that looks at the number of tokens returns
\* at once for a page with fewer than 50, leaving unique_pages, subdomain_pages,
\* longest_page, word_counts and the log as they are, and goes on for a page
\* with 50 or more; no short page is ever in the statistics or the log, and a
\* page whose update has finished is in unique_pages
C17_LowContentPagesLeaveNoTrace ==
    /\ [][\A t \in Workers :
             rs[t].pc = "tokens" /\ rs'[t] # rs[t] =>
                 IF rs[t].url \in ShortPages
                 THEN /\ rs'[t].pc = "idle"
                      /\ UNCHANGED <<unique_pages, subdomain_pages, longest_page,
                                     word_counts, crawl_log>>
                 ELSE rs'[t].pc = "acquire"]_vars
    /\ [](\A url \in ShortPages :
             /\ nrecorded[url] = 0
             /\ Locals[url].clean_url \notin unique_pages
             /\ longest_page[1] # Locals[url].clean_url
             /\ \A sub \in DOMAIN subdomain_pages :
                   Locals[url].clean_url \notin subdomain_pages[sub]
             /\ \A i \in 1..Len(crawl_log) : crawl_log[i].url # Locals[url].clean_url)
    /\ [](\A url \in DOMAIN Locals :
             nrecorded[url] > 0 => Locals[url].clean_url \in unique_pages)

\* C17 witness: _record_stats has returned for a page with 49 tokens and for a
\* page with exactly 50, and only the second one is recorded and logged
C17_Witness ==
    /\ \A t \in Workers : rs[t].pc = "idle"
    /\ ncalled["http://a.ics.uci.edu/short"] = 1
    /\ Len(Locals["http://a.ics.uci.edu/short"].tokens) = 49
    /\ ncalled["http://a.ics.uci.edu/p#top"] = 1
    /\ Len(Locals["http://a.ics.uci.edu/p#top"].tokens) = 50
    /\ unique_pages = {"http://a.ics.uci.edu/p"}
    /\ Len(crawl_log) = 1

(***************************************************************************)
(* C18  _save_report at exit and in the SIGTERM handler                    *)
(***************************************************************************)

\* the innermost _save_report waits for stats_lock while an invocation it has
\* interrupted on the same thread holds it: neither can ever go on
SelfDeadlock ==
    /\ main # <<>>
    /\ Top.pc = "acquire"
    /\ stats_lock # Unlocked
    /\ stats_lock[1] = "main"

\* C18: in every interleaving of the exit-time flush and the SIGTERM handler no
\* invocation of _save_report is stuck behind the stats_lock of an invocation
\* it interrupted, and every report written agrees with itself: the subdomain
\* counts do not add up to more than the number of unique pages
C18_FlushNeverDeadlocks ==
    /\ ~SelfDeadlock
    /\ \A i \in 1..Len(report) :
          Sum(report[i].subdomains, DOMAIN report[i].subdomains)
              <= report[i].unique_pages_count

\* the same without the deadlock: what is written is consistent
C18_ReportsConsistent ==
    \A i \in 1..Len(report) :
        Sum(report[i].subdomains, DOMAIN report[i].subdomains)
            <= report[i].unique_pages_count

(***************************************************************************)
(* C19  the date trap                                                      *)
(***************************************************************************)

\* C19: is_valid returns False for https://x.ics.uci.edu/cal/2023-05/
C19_DateTrapExampleRejected ==
    url_checked = "https://x.ics.uci.edu/cal/2023-05/" /\ verdict # None =>
        verdict = "False"

\* the same URL with the segment spelled calendar is rejected
C19_CalendarRejected ==
    url_checked = "https://x.ics.uci.edu/calendar/2023-05/" /\ verdict # None =>
        verdict = "False"

(***************************************************************************)
(* C20  the other examples of the trap detector                            *)
(***************************************************************************)

\* C20: is_valid returns False for a URL whose host holds "gitlab", whose path
\* ends in .pdf, whose path is /a/b/a/b, which is longer than 200 characters,
\* or whose query holds do=media; it returns True for
\* https://www.ics.uci.edu/people/
C20_TrapExamples ==
    verdict # None =>
        /\ Contains(url_checked, "gitlab.ics.uci.edu") => verdict = "False"
        /\ Contains(url_checked, "/a.pdf") => verdict = "False"
        /\ Contains(url_checked, "/a/b/a/b") => verdict = "False"
        /\ Len(url_checked) > 200 => verdict = "False"
        /\ Contains(url_checked, "do=media") => verdict = "False"
        /\ url_checked = "https://www.ics.uci.edu/people/" => verdict = "True"

\* C20 witness: is_valid has accepted https://www.ics.uci.edu/people/
C20_Witness ==
    url_checked = "https://www.ics.uci.edu/people/" /\ verdict = "True"

(***************************************************************************)
(* C21  a URL that does not parse                                          *)
(***************************************************************************)

\* the URLs of the crawl on which is_valid raises
IsValidRaisesOn ==
    {u \in URLS : is_valid_raises(u)}

\* C21: is_valid never answers False for a URL urlparse raises on, it raises;
\* scraper raises when one of the extracted links is such a URL; and a launch
\* without --restart has raised out of Frontier.__init__ exactly when the store
\* holds such a URL in a record that is not completed: the record is never
\* skipped and the URL never queued
C21_ParseFailurePropagates ==
    /\ \A u \in URLS : ParsedUrl[u].error => u \in IsValidRaisesOn
    /\ \A r \in RESPONSES :
          (\E i \in 1..Len(extract_next_links(r)) :
              ParsedUrl[extract_next_links(r)[i]].error) => scraper_raises(r)
    /\ (~restart /\ \A w \in Workers : pc[w] # "boot") =>
          ((\A w \in Workers : pc[w] = "aborted") <=>
              \E h \in DOMAIN save : ~save[h][2] /\ ParsedUrl[save[h][1]].error)
    /\ \A u \in URLS : ParsedUrl[u].error => QueuedCount(domain_queues, u) = 0

\* C21 witness: the launch without --restart found a record that is not
\* completed and does not parse next to one that does, and has raised
C21_Witness ==
    /\ ~restart
    /\ \A w \in Workers : pc[w] = "aborted"
    /\ Incomplete("http://[::1")
    /\ Incomplete("http://a.ics.uci.edu/p")

(***************************************************************************)
(* C22  what the constructor seeds                                         *)
(***************************************************************************)

\* store sv and queues dq hold the seeds and nothing else: one record with
\* completed = False per distinct normalized seed, and each such URL queued once
SeededExactly(sv, dq) ==
    LET seeds == {normalize(ReloadSeeds[i]) : i \in 1..Len(ReloadSeeds)}
    IN  /\ DOMAIN sv = {get_urlhash(u) : u \in seeds}
        /\ \A u \in seeds : sv[get_urlhash(u)] = <<u, FALSE>>
        /\ \A u \in URLS : QueuedCount(dq, u) = IF u \in seeds THEN 1 ELSE 0

\* C22: in the step that constructs the Frontier, with --restart the store and
\* the queues come out holding exactly the seeds, whatever the save file held;
\* without it the same happens when the save file is empty, and otherwise the
\* store is left as it is and only URLs with a record that is not completed are
\* queued, each once: no seed is added
C22_ConstructorSeeding ==
    [][((\A w \in Workers : pc[w] = "boot")
            /\ (\A w \in Workers : pc'[w] = "get_tbd_url")) =>
          IF restart \/ DOMAIN save = {}
          THEN SeededExactly(save', domain_queues')
          ELSE /\ save' = save
               /\ \A u \in URLS :
                     QueuedCount(domain_queues', u)
                         <= (IF Incomplete(u) THEN 1 ELSE 0)]_vars

\* C22 witness: a launch without --restart has constructed the Frontier on a
\* store with two records, both completed, a seed among them: nothing is queued
C22_Witness ==
    /\ ~restart
    /\ \A w \in Workers : pc[w] = "get_tbd_url"
    /\ Completed("http://a.ics.uci.edu/p")
    /\ Completed("http://a.ics.uci.edu/q")
    /\ Cardinality(DOMAIN save) = 2
    /\ domain_queues = <<>>

(***************************************************************************)
(* C23  what get_tbd_url returns                                           *)
(***************************************************************************)

\* the positions in scan order of the domains whose queue is not empty and whose
\* last access, if any, is at least time_delay ago
ReadyNonEmpty ==
    {i \in 1..Len(domain_queues) :
        /\ domain_queues[i].queue # <<>>
        /\ now - (IF domain_queues[i].domain \in DOMAIN last_accessed
                  THEN last_accessed[domain_queues[i].domain] ELSE 0) >= time_delay}

\* C23: a call of get_tbd_url (the frontier call that is neither add_url nor
\* mark_url_complete) returns the head of the first queue in scan order that is
\* not empty and out of cooldown, stamping the domain and raising the counter;
\* when there is no such queue it returns None and leaves last_accessed and
\* active_downloads as they are, and the queues too but for the empty ones
C23_GetTbdUrlResult ==
    [][(ncalls' > ncalls /\ nadd' = nadd /\ nmark' = nmark) =>
          IF ReadyNonEmpty # {}
          THEN LET first == CHOOSE i \in ReadyNonEmpty :
                                \A j \in ReadyNonEmpty : i <= j
                   url == Head(domain_queues[first].queue)
               IN  /\ npop' = [npop EXCEPT ![url] = @ + 1]
                   /\ active_downloads' = active_downloads + 1
                   /\ last_accessed' = Put(last_accessed,
                                           domain_queues[first].domain, now)
          ELSE /\ npop' = npop
               /\ active_downloads' = active_downloads
               /\ last_accessed' = last_accessed
               /\ domain_queues' = SelectSeq(domain_queues,
                                             LAMBDA e : e.queue # <<>>)]_vars

\* C23 witness: the first domain in scan order has a URL queued and is in its
\* cooldown, and the call has returned the head of a later domain
C23_Witness ==
    /\ Len(domain_queues) >= 2
    /\ domain_queues[1].queue # <<>>
    /\ domain_queues[1].domain \in DOMAIN last_accessed
    /\ now - last_accessed[domain_queues[1].domain] < time_delay
    /\ \E i \in 2..Len(domain_queues) :
          /\ domain_queues[i].domain \in DOMAIN last_accessed
          /\ last_accessed[domain_queues[i].domain] = now
          /\ \E u \in URLS : DomainOf(u) = domain_queues[i].domain /\ npop[u] = 1

(***************************************************************************)
(* C24  what the Worker dispatches                                         *)
(***************************************************************************)

\* the order of the dispatch: the links a Worker is about to pass to add_url
\* all pass is_valid, it marks its page only when none is left, and
\* active_downloads is positive while it adds them
C24_DispatchOrder ==
    \A w \in DOMAIN pc :
        /\ pc[w] = "add_url" =>
              /\ \A i \in 1..Len(scraped_urls[w]) : ValidUrl[scraped_urls[w][i]]
              /\ active_downloads > 0
        /\ pc[w] = "mark_url_complete" => scraped_urls[w] = <<>>

\* C24: the dispatch is in that order, and every record of the store holds a
\* seed URL or a URL that is_valid accepts
C24_StoreHoldsSeedsAndValidUrls ==
    /\ C24_DispatchOrder
    /\ \A h \in DOMAIN save :
          \/ save[h][1] \in {normalize(E2ESeeds[i]) : i \in 1..Len(E2ESeeds)}
          \/ ValidUrl[save[h][1]]

(***************************************************************************)
(* C25  stats_lock and log_lock                                            *)
(***************************************************************************)

\* the order of the locks: a thread that holds stats_lock is inside the update
\* section of _record_stats or the snapshot of _save_report, holds no log_lock
\* there and is not waiting for one; the main thread never takes log_lock
C25_LockOrder ==
    /\ \A t \in Workers :
          /\ stats_lock = <<"worker", t>> <=>
                rs[t].pc \in {"update", "read", "write", "release"}
          /\ stats_lock = <<"worker", t>> => log_lock # <<"worker", t>>
          /\ log_lock = <<"worker", t>> <=> rs[t].pc \in {"page_count", "log_write"}
    /\ log_lock # Unlocked => log_lock[1] = "worker"
    /\ (stats_lock # Unlocked /\ stats_lock[1] = "main") =>
          /\ stats_lock[2] \in 1..Len(main)
          /\ main[stats_lock[2]].pc = "locked"

\* C25: the two locks are taken in that order, and no thread waits for a lock
\* whose holder cannot run before the waiting thread has gone on: the locks
\* never deadlock, in any interleaving of recording Workers and flushes
C25_LocksNeverDeadlock ==
    /\ C25_LockOrder
    /\ \A d \in 1..Len(main) :
          (main[d].pc = "acquire" /\ stats_lock # Unlocked /\ stats_lock[1] = "main")
              => stats_lock[2] > d

(***************************************************************************)
(* C26  longest_page                                                       *)
(***************************************************************************)

\* the pages whose update of longest_page has been made: the recorded ones and
\* those of the threads that are past it inside the with block
UpdatedPages ==
    {url \in DOMAIN Locals : nrecorded[url] > 0}
        \cup {rs[t].url : t \in {x \in Workers : rs[x].pc \in {"read", "write", "release"}}}

\* C26: longest_page is ("", 0) while no page was recorded and otherwise a
\* recorded page with its raw token count, which is the largest raw token count
\* of the recorded pages; it is replaced only by a page with a strictly larger
\* count, so the first of several longest pages is kept and the count never
\* decreases
C26_LongestPage ==
    /\ [](IF UpdatedPages = {} THEN longest_page = <<"", 0>>
          ELSE /\ \E url \in UpdatedPages :
                     longest_page = <<Locals[url].clean_url,
                                      Locals[url].total_word_count>>
               /\ \A url \in UpdatedPages :
                     Locals[url].total_word_count <= longest_page[2])
    /\ [][longest_page' # longest_page => longest_page'[2] > longest_page[2]]_vars

\* C26 witness: two pages of 50 tokens are recorded, http://example.com/ took
\* the lock first and is still the longest page
C26_Witness ==
    /\ nrecorded["http://example.com/"] = 1
    /\ nrecorded["http://a.ics.uci.edu/p#top"] = 1
    /\ longest_page = <<"http://example.com/", 50>>
    /\ \A t \in Workers : rs[t].pc = "idle"

(***************************************************************************)
(* C27  no fairness across domains                                         *)
(***************************************************************************)

Crashed ==
    {w \in Workers : pc[w] = "crashed"}

\* what a dead thread leaves behind: its URL was popped and never marked, the
\* record still has completed = False, active_downloads still counts it, so
\* has_pending_urls is true and no Worker is or gets DONE; and it stays so
C28_Stuck ==
    /\ \A w \in Crashed :
          /\ tbd_url[w] # None
          /\ InFlight(tbd_url[w])
          /\ nmark[tbd_url[w]] = 0
          /\ Incomplete(tbd_url[w])
    /\ active_downloads >= Cardinality(Crashed)
    /\ Crashed # {} =>
          /\ ~AllQueuesEmpty \/ active_downloads > 0
          /\ \A v \in Workers : pc[v] # "done"

\* C28 as stated: after a Worker thread has died between get_tbd_url and
\* mark_url_complete, its URL stays incomplete and counted in active_downloads,
\* has_pending_urls stays true, no Worker reaches DONE, and with two or more
\* Workers Crawler.start never returns: the threads never all end
C28_CrashHangsTheCrawl ==
    /\ C28_Stuck
    /\ (Crashed # {} /\ NumWorkers >= 2) => ~(\A w \in Workers : ThreadEnded(w))

\* C28 amended: the same, but Crawler.start does return in one case, when every
\* Worker thread has died; a dead thread stays dead
C28_CrashHangsTheCrawlUnlessAllDie ==
    /\ []C28_Stuck
    /\ []((Crashed # {} /\ \A w \in Workers : ThreadEnded(w)) => Crashed = Workers)
    /\ [][Crashed \subseteq Crashed']_vars

\* C28 witness: the thread of Worker 1 has died on the page it fetched, every
\* queue is empty, and Worker 2 is asking has_pending_urls once more
C28_Witness ==
    /\ pc[1] = "crashed"
    /\ pc[2] = "has_pending_urls"
    /\ AllQueuesEmpty
    /\ active_downloads = 1
    /\ \A u \in URLS : npop[u] > 0 => u = tbd_url[1] \/ Completed(u)

(***************************************************************************)
(* C29  pruning keeps the timestamp                                        *)
(***************************************************************************)

\* the keys of domain_queues
QueueKeys(dq) ==
    {dq[i].domain : i \in 1..Len(dq)}

\* C29: a step that deletes a domain's queue or creates it again leaves the
\* domain's last_accessed as it was, so last_accessed[d] is the time of the
\* latest pop from d whether or not d has a queue, and a URL of d is returned
\* only time_delay or more after that pop
C29_PruningKeepsTimestamp ==
    /\ [][\A d \in (QueueKeys(domain_queues) \ QueueKeys(domain_queues'))
                      \cup (QueueKeys(domain_queues') \ QueueKeys(domain_queues)) :
             /\ d \in DOMAIN last_accessed <=> d \in DOMAIN last_accessed'
             /\ d \in DOMAIN last_accessed => last_accessed'[d] = last_accessed[d]]_vars
    /\ [](/\ DOMAIN lastPop = DOMAIN last_accessed
          /\ \A d \in DOMAIN lastPop : last_accessed[d] = lastPop[d])
    /\ [][\A u \in URLS :
             (npop'[u] > npop[u] /\ DomainOf(u) \in DOMAIN lastPop)
                 => now - lastPop[DomainOf(u)] >= time_delay]_vars

\* C29 witness: the queue of a.ics.uci.edu, first in scan order at the start,
\* was emptied by a pop and deleted by a later scan; add_url has created it
\* again behind b.ics.uci.edu, and the cooldown from that pop is still running
C29_Witness ==
    /\ npop["http://a.ics.uci.edu/p"] = 1
    /\ \E i, j \in 1..Len(domain_queues) :
          /\ i < j
          /\ domain_queues[i].domain = "b.ics.uci.edu"
          /\ domain_queues[j].domain = "a.ics.uci.edu"
          /\ domain_queues[j].queue = <<"http://a.ics.uci.edu/q">>
    /\ "a.ics.uci.edu" \in DOMAIN last_accessed
    /\ now - last_accessed["a.ics.uci.edu"] < time_delay

=============================================================================
